---- MODULE Spec2Model ----
(***************************************************************************)
(* JSONSchemaField (src/models/fields.py): a JSON model field that         *)
(* validates its value against a JSON Schema.  The schema is given at      *)
(* field declaration as None, a mapping, a string (JSON text or a dotted   *)
(* attribute path) or a callable, is resolved per model instance by        *)
(* get_schema, and is handed to jsonschema.validate, whose two exception   *)
(* kinds are re-raised as django ValidationError.                          *)
(*                                                                         *)
(* Python values are records of one shape, so that any two of them can be  *)
(* compared:                                                               *)
(*   t  the Python type                                                    *)
(*   i  1/0 of a bool                                                      *)
(*   s  the text of a str, the decimal digits of an int, the repr of a     *)
(*      float, the name of a function, class or method                     *)
(*   d  the items of a dict (<<key, value>> in insertion order), the       *)
(*      attributes of an object, the elements of a list (empty key)        *)
(* A Python str is the sequence of its code points.                        *)
(***************************************************************************)
EXTENDS Integers, Sequences, FiniteSets, TLC

VARIABLES
    ctor,       \* the arguments JSONSchemaField(...) was declared with, what __init__
                \* raised, and the field as __init__ left it
    field,      \* the JSONSchemaField object: _schema_kwarg, _schema, format_checker, encoder
    instances,  \* the model instances, instances[n] an object with attributes
    last,       \* the most recent completed call on the field: its arguments and its result
    threads     \* per thread, the position inside a running validate_against_schema

vars == <<ctor, field, instances, last, threads>>

\* The number of model instances.
NumInstances == 2

(***************************************************************************)
(* Python str                                                              *)
(***************************************************************************)
\* ord(c) of a character written as a one-character literal; AsciiLow and
\* AsciiHigh are the characters of code points 32 to 95 and 97 to 126.
Ord(c) ==
    LET AsciiLow == " !\"#$%&'()*+,-./0123456789:;<=>?@ABCDEFGHIJKLMNOPQRSTUVWXYZ[\\]^_"
        AsciiHigh == "abcdefghijklmnopqrstuvwxyz{|}~"
    IN
    CASE c = "\t" -> 9 [] c = "\n" -> 10 [] c = "\f" -> 12 [] c = "\r" -> 13
      [] \E k \in 1..Len(AsciiLow) : SubSeq(AsciiLow, k, k) = c ->
            31 + (CHOOSE k \in 1..Len(AsciiLow) : SubSeq(AsciiLow, k, k) = c)
      [] OTHER -> 96 + (CHOOSE k \in 1..Len(AsciiHigh) : SubSeq(AsciiHigh, k, k) = c)

\* The str written as the literal lit.
Str(lit) == [k \in 1..Len(lit) |-> Ord(SubSeq(lit, k, k))]

\* A local variable: v is computed once, and F gives the result from it.
Bind(v, F(_)) == CHOOSE result \in {F(x) : x \in {v}} : TRUE

\* s[idx-1] of Python for a 1-based idx, -1 outside the str.
CharAt(s, idx) == IF idx >= 1 /\ idx <= Len(s) THEN s[idx] ELSE -1

\* s[idx-1:end] of Python, for 1-based idx and end: the slice stops at the end of s.
Slice(s, idx, end) == SubSeq(s, idx, IF end > Len(s) THEN Len(s) ELSE end)

\* sub in s, for two str
Contains(s, sub) ==
    \E k \in 1..(Len(s) - Len(sub) + 1) : SubSeq(s, k, k + Len(sub) - 1) = sub

\* "".join(parts[lo-1:hi])
RECURSIVE Join(_, _, _)
Join(parts, lo, hi) ==
    IF lo > hi THEN <<>>
    ELSE IF lo = hi THEN parts[lo]
    ELSE Join(parts, lo, (lo + hi) \div 2) \o Join(parts, (lo + hi) \div 2 + 1, hi)

\* ord(c) of the characters the scanner, repr and split name.
Char ==
    [quote |-> 34, apostrophe |-> 39, backslash |-> 92, slash |-> 47, minus |-> 45,
     plus |-> 43, dot |-> 46, comma |-> 44, colon |-> 58, zero |-> 48, nine |-> 57,
     lbrace |-> 123, rbrace |-> 125, lbracket |-> 91, rbracket |-> 93, space |-> 32,
     tab |-> 9, newline |-> 10, return |-> 13, formfeed |-> 12, backspace |-> 8,
     delete |-> 127, bom |-> 65279, a |-> 97, b |-> 98, e |-> 101, f |-> 102,
     n |-> 110, r |-> 114, t |-> 116, u |-> 117, x |-> 120, A |-> 65, E |-> 69,
     F |-> 70, I |-> 73, N |-> 78, U |-> 85]

Digits == Char.zero..Char.nine

\* str(n) for a machine-size n >= 0
DecText(n) ==
    LET len == IF n = 0 THEN 1 ELSE Cardinality({k \in 0..9 : 10 ^ k <= n}) IN
    [k \in 1..len |-> Char.zero + ((n \div (10 ^ (len - k))) % 10)]

(***************************************************************************)
(* Natural numbers of any size, as their decimal digits, least significant *)
(* first and with no leading zero (0 is <<>>): the arithmetic float() and  *)
(* repr() of a float need beyond the machine integers.                     *)
(***************************************************************************)
DigitAt(a, k) == IF k >= 1 /\ k <= Len(a) THEN a[k] ELSE 0

\* a without leading zeros
Norm(a) ==
    IF \A k \in 1..Len(a) : a[k] = 0 THEN <<>>
    ELSE SubSeq(a, 1, CHOOSE k \in 1..Len(a) :
                        a[k] # 0 /\ \A j \in (k + 1)..Len(a) : a[j] = 0)

\* -1, 0, 1 as a < b, a = b, a > b
Cmp(a, b) ==
    CASE Len(a) < Len(b) -> -1
      [] Len(a) > Len(b) -> 1
      [] a = b -> 0
      [] OTHER -> LET k == CHOOSE k \in 1..Len(a) :
                              a[k] # b[k] /\ \A j \in (k + 1)..Len(a) : a[j] = b[j]
                  IN  IF a[k] < b[k] THEN -1 ELSE 1

\* The digits of a number given as the columns v of a sum in progress, each
\* column 0..18, with the carry cin into the first: the carry into a column
\* is the one the nearest column below that is not 9 gives out.
Ripple(v, cin) ==
    LET into(k) ==
            IF \A t \in 1..(k - 1) : v[t] = 9 THEN cin
            ELSE LET d == CHOOSE d \in 1..(k - 1) :
                              v[k - d] # 9 /\ \A t \in 1..(d - 1) : v[k - t] = 9
                 IN  IF v[k - d] >= 10 THEN 1 ELSE 0
    IN  [k \in 1..(Len(v) + 1) |-> IF k > Len(v) THEN into(k) ELSE (v[k] + into(k)) % 10]

\* a * m for a machine-size m below 2 * 10^8: the columns of the products of
\* the digits, their digits moved to the columns they belong to, twice, and
\* then the carries.
MulSmall(a, m) ==
    Bind([k \in 1..(Len(a) + 10) |->
            DigitAt(a, k) * (m % 10)
            + DigitAt(a, k - 1) * ((m \div 10) % 10)
            + DigitAt(a, k - 2) * ((m \div 100) % 10)
            + DigitAt(a, k - 3) * ((m \div 1000) % 10)
            + DigitAt(a, k - 4) * ((m \div 10000) % 10)
            + DigitAt(a, k - 5) * ((m \div 100000) % 10)
            + DigitAt(a, k - 6) * ((m \div 1000000) % 10)
            + DigitAt(a, k - 7) * ((m \div 10000000) % 10)
            + DigitAt(a, k - 8) * ((m \div 100000000) % 10)], LAMBDA products :
    Bind([k \in 1..(Len(a) + 10) |->
            (products[k] % 10)
            + (IF k > 1 THEN (products[k - 1] \div 10) % 10 ELSE 0)
            + (IF k > 2 THEN products[k - 2] \div 100 ELSE 0)], LAMBDA moved :
    Norm(Ripple([k \in 1..(Len(a) + 10) |->
                    (moved[k] % 10) + (IF k > 1 THEN moved[k - 1] \div 10 ELSE 0)], 0))))

\* a * base^k, by factors of base^chunk
RECURSIVE MulPow(_, _, _, _)
MulPow(a, base, chunk, k) ==
    IF k <= chunk THEN MulSmall(a, base ^ k)
    ELSE Bind(MulPow(a, base, chunk, k \div 2), LAMBDA half :
              MulPow(half, base, chunk, k - (k \div 2)))

\* a * 2^k
MulPow2(a, k) == MulPow(a, 2, 27, k)

\* a * 5^k
MulPow5(a, k) == MulPow(a, 5, 11, k)

\* a + b
Add(a, b) ==
    Norm(Ripple([k \in 1..(IF Len(a) > Len(b) THEN Len(a) ELSE Len(b)) |->
                    DigitAt(a, k) + DigitAt(b, k)], 0))

\* a - b for a >= b: a plus the nines' complement of b plus 1, less the
\* carry out of the last column
Sub(a, b) ==
    Norm(SubSeq(Ripple([k \in 1..Len(a) |-> a[k] + 9 - DigitAt(b, k)], 1), 1, Len(a)))

\* a * 10^k for k >= 0, a with its k last digits dropped for k < 0
Shift(a, k) ==
    IF k >= 0 THEN (IF a = <<>> THEN <<>> ELSE [j \in 1..k |-> 0] \o a)
    ELSE SubSeq(a, 1 - k, Len(a))

\* a with its k last digits made 0: the multiple of 10^k at or below a
TruncLow(a, k) == Norm([j \in 1..Len(a) |-> IF j <= k THEN 0 ELSE a[j]])

(***************************************************************************)
(* Python values                                                           *)
(***************************************************************************)
PyVal(t, i, s, d) == [t |-> t, i |-> i, s |-> s, d |-> d]

PyNone == PyVal("NoneType", 0, <<>>, <<>>)

\* An int, from its decimal text: "-" and the digits, no leading zero.
PyIntOf(text) == PyVal("int", 0, text, <<>>)

\* The int n, for a machine-size n
PyInt(n) == PyIntOf(IF n < 0 THEN <<Char.minus>> \o DecText(-n) ELSE DecText(n))

PyBool(b) == PyVal("bool", IF b THEN 1 ELSE 0, <<>>, <<>>)

PyStr(x) == PyVal("str", 0, x, <<>>)

\* A float, from its repr: the shortest decimal text that reads back as the
\* same double, so that two floats are the same double exactly when their
\* texts are equal (0.0 and -0.0 are two doubles; nan is one text).
PyFloat(text) == PyVal("float", 0, text, <<>>)

PyDict(items) == PyVal("dict", 0, <<>>, items)

PyList(elems) == PyVal("list", 0, <<>>, [k \in 1..Len(elems) |-> <<(<<>>), elems[k]>>])

PyClass(name) == PyVal("type", 0, name, <<>>)

\* d[key] of a dict, attribute key of an object: whether it is there, and its value.
HasKey(v, key) == \E k \in 1..Len(v.d) : v.d[k][1] = key

GetKey(v, key) == v.d[CHOOSE k \in 1..Len(v.d) : v.d[k][1] = key][2]

\* d[key] = val: an existing key keeps its place, a new key goes last.
SetKey(v, key, val) ==
    IF HasKey(v, key)
    THEN [v EXCEPT !.d = [k \in 1..Len(v.d) |->
                            IF v.d[k][1] = key THEN <<key, val>> ELSE v.d[k]]]
    ELSE [v EXCEPT !.d = Append(v.d, <<key, val>>)]

\* An exception: its class, and for django's ValidationError its code and message.
Exc(type, code, message) == [type |-> type, code |-> code, message |-> message]

NoExc == Exc("", "", <<>>)

Raised(e) == e.type # ""

(***************************************************************************)
(* float(text) and repr(float): IEEE 754 doubles, round-half-even          *)
(***************************************************************************)
\* 2^52 .. 2^57
TwoTo == [j \in 52..57 |-> MulPow2(<<1>>, j)]

\* A double: zero, inf, or q * 2^k with q < 2^53 and k >= -1074, where
\* q >= 2^52 unless k = -1074.
Double(kind, q, k) == [kind |-> kind, q |-> q, k |-> k]

\* The double nearest to m * 10^e, ties to the even q.  With t the number of
\* digits before the decimal point the value is in [10^(t-1), 10^t); lg is at
\* most its binary logarithm and at least that minus 5.
RoundToDouble(m, e) ==
    LET t == Len(m) + e IN
    IF m = <<>> \/ t <= -324 THEN Double("zero", <<>>, 0)
    ELSE IF t > 310 THEN Double("inf", <<>>, 0)
    ELSE
    LET lg == IF t >= 1 THEN ((t - 1) * 3321928) \div 1000000
              ELSE -(((1 - t) * 3321929 + 999999) \div 1000000)
        k0 == IF lg - 52 < -1074 THEN -1074 ELSE lg - 52
        f0 == e - (IF k0 > 0 THEN k0 ELSE 0)
    IN  \* m * 10^e / 2^k0 = p0 * 10^f0
        Bind(IF k0 <= 0 THEN MulPow2(m, -k0) ELSE MulPow5(m, k0), LAMBDA p0 :
        Bind(Cardinality({j \in 53..57 : Cmp(Shift(p0, f0), TwoTo[j]) >= 0}), LAMBDA b :
        \* m * 10^e / 2^(k0 + b) = p * 10^f
        Bind(MulSmall(p0, 5 ^ b), LAMBDA p :
        LET f    == f0 - b
            q    == Shift(p, f)
            half == IF f < 0 THEN DigitAt(p, -f) ELSE 0
            rest == \E j \in 1..(-f - 1) : DigitAt(p, j) # 0
            up   == half > 5 \/ (half = 5 /\ (rest \/ (DigitAt(q, 1) % 2) = 1))
        IN  Bind(IF up THEN Add(q, <<1>>) ELSE q, LAMBDA r :
            \* a carry out of 53 bits is 2^52 with the next exponent
            LET k == k0 + b + (IF r = TwoTo[53] THEN 1 ELSE 0) IN
            CASE r = <<>> -> Double("zero", <<>>, 0)
              [] r # <<>> /\ k > 971 -> Double("inf", <<>>, 0)
              [] r # <<>> /\ k <= 971 /\ r = TwoTo[53] -> Double("finite", TwoTo[52], k)
              [] OTHER -> Double("finite", r, k)))))

\* The shortest decimal that RoundToDouble takes to q * 2^k, and of those the
\* nearest to it: digits (least significant first) and decpt, the value being
\* 0.digits * 10^decpt.  x, hi and lo are the double and the ends of the
\* interval that rounds to it, in units of 2^(k-2) * 10^scale.
ShortestDecimal(q, k) ==
    LET scale == IF k - 2 < 0 THEN k - 2 ELSE 0 IN
    Bind(IF k - 2 >= 0 THEN MulPow2(<<1>>, k - 2) ELSE MulPow5(<<1>>, 2 - k), LAMBDA unit :
    Bind(IF k - 2 >= 0 THEN MulPow2(MulSmall(q, 4), k - 2)
         ELSE MulPow5(MulSmall(q, 4), 2 - k), LAMBDA x :
    LET even == (DigitAt(q, 1) % 2) = 0
        above == Add(x, MulSmall(unit, 2))
        below == Sub(x, IF q = TwoTo[52] /\ k > -1074 THEN unit ELSE MulSmall(unit, 2))
    IN  Bind(IF even THEN above ELSE Sub(above, <<1>>), LAMBDA hi :
        Bind(IF even THEN below ELSE Add(below, <<1>>), LAMBDA lo :
        \* the most digits j that can be dropped: a multiple of 10^j is in lo..hi
        Bind(Cardinality({j \in 1..(Len(hi) - 1) : Cmp(TruncLow(hi, j), lo) >= 0}), LAMBDA j :
        LET floor  == TruncLow(x, j)
            ceil   == Add(floor, Shift(<<1>>, j))
            nearer == \/ DigitAt(x, j) > 5
                      \/ /\ DigitAt(x, j) = 5
                         /\ \/ \E i \in 1..(j - 1) : DigitAt(x, i) # 0
                            \/ (DigitAt(x, j + 1) % 2) = 1
            c      == IF (nearer /\ Cmp(ceil, hi) <= 0) \/ Cmp(floor, lo) < 0
                      THEN ceil ELSE floor
            zeros  == CHOOSE z \in 0..Len(c) : DigitAt(c, z + 1) # 0
                                               /\ \A i \in 1..z : c[i] = 0
        IN  [digits |-> Shift(c, -zeros), decpt |-> Len(c) + scale])))))

\* float_repr_style 'short': repr of the finite nonzero double with these
\* digits and decpt, exponent notation when decpt > 16 or decpt < -3.
FormatShort(digits, decpt) ==
    LET n  == Len(digits)
        ds == [i \in 1..n |-> Char.zero + digits[n - i + 1]]
        zs(count) == [i \in 1..count |-> Char.zero]
        ex == IF decpt - 1 < 0 THEN 1 - decpt ELSE decpt - 1
    IN  CASE decpt > 16 \/ decpt < -3 ->
                SubSeq(ds, 1, 1)
                \o (IF n > 1 THEN <<Char.dot>> \o SubSeq(ds, 2, n) ELSE <<>>)
                \o <<Char.e, IF decpt - 1 < 0 THEN Char.minus ELSE Char.plus>>
                \o (IF ex < 10 THEN <<Char.zero>> ELSE <<>>) \o DecText(ex)
          [] decpt \in -3..0 -> <<Char.zero, Char.dot>> \o zs(-decpt) \o ds
          [] decpt \in 1..16 /\ decpt >= n -> ds \o zs(decpt - n) \o <<Char.dot, Char.zero>>
          [] OTHER -> SubSeq(ds, 1, decpt) \o <<Char.dot>> \o SubSeq(ds, decpt + 1, n)

\* repr of the floats that are written in words or have no digits to choose
FloatText == [zero |-> Str("0.0"), inf |-> Str("inf"), nan |-> Str("nan")]

\* The numbers of the texts float() is given: digits most significant first.
DigitsOf(text) == Norm([k \in 1..Len(text) |-> text[Len(text) - k + 1] - Char.zero])

\* The exponent a text of digits writes; past 8 digits only its size matters.
ExponentOf(text) ==
    Bind(DigitsOf(text), LAMBDA ds :
        IF Len(ds) > 8 THEN 100000000
        ELSE DigitAt(ds, 1) + 10 * DigitAt(ds, 2) + 100 * DigitAt(ds, 3)
             + 1000 * DigitAt(ds, 4) + 10000 * DigitAt(ds, 5) + 100000 * DigitAt(ds, 6)
             + 1000000 * DigitAt(ds, 7) + 10000000 * DigitAt(ds, 8))

\* repr(float(text)) for text = [-] int [. frac] [e [+-] exp], each part digits
FloatRepr(neg, int, frac, expNeg, exp) ==
    Bind(RoundToDouble(DigitsOf(int \o frac),
                       (IF expNeg THEN -1 ELSE 1) * ExponentOf(exp) - Len(frac)),
         LAMBDA double :
    (IF neg THEN <<Char.minus>> ELSE <<>>) \o
    CASE double.kind = "zero" -> FloatText.zero
      [] double.kind = "inf" -> FloatText.inf
      [] OTHER -> Bind(ShortestDecimal(double.q, double.k), LAMBDA shortest :
                       FormatShort(shortest.digits, shortest.decpt)))

(***************************************************************************)
(* json.loads, as fields.py:94 calls it on the string given as schema:     *)
(* the scanner of json.scanner and json.decoder, read character by         *)
(* character.                                                              *)
(***************************************************************************)
\* The literals json.scanner knows.
Token ==
    [null |-> Str("null"), true |-> Str("true"), false |-> Str("false"),
     NaN |-> Str("NaN"), Infinity |-> Str("Infinity"), NegInfinity |-> Str("-Infinity")]

\* The least index at or after idx whose character is not in chars, Len(s) + 1
\* when every character from idx on is.
FirstNotIn(s, chars, idx) ==
    IF \A k \in idx..Len(s) : s[k] \in chars
    THEN (IF idx > Len(s) THEN idx ELSE Len(s) + 1)
    ELSE CHOOSE k \in idx..Len(s) : s[k] \notin chars /\ \A j \in idx..(k - 1) : s[j] \in chars

\* json.decoder WHITESPACE.match(s, idx).end()
SkipWhitespace(s, idx) ==
    FirstNotIn(s, {Char.space, Char.tab, Char.newline, Char.return}, idx)

\* The index after the digits that start at idx.
EndOfDigits(s, idx) == FirstNotIn(s, Digits, idx)

\* What a scan gives: a value and the index after it, or the exception raised.
Scanned(v, end) == [ok |-> TRUE, exc |-> "", v |-> v, end |-> end]

\* The scan raising: "JSONDecodeError" is the scanner's raise_errmsg, built
\* where the error is found; "StopIteration" its raise_stop_iteration
\* ("Expecting value"), which JSONDecoder.raw_decode turns into
\* JSONDecodeError; "RecursionError" is Py_EnterRecursiveCall refusing at the
\* interpreter's recursion limit; "ValueError" is int() refusing.
ScanError(exc) == [ok |-> FALSE, exc |-> exc, v |-> PyNone, end |-> 0]

\* The calls still allowed that the scanner needs to look up and build a
\* JSONDecodeError where it finds an error (CPython 3.11).
ErrmsgCalls == 3

\* raise_errmsg with room calls still allowed
RaiseErrmsg(room) ==
    ScanError(IF room >= ErrmsgCalls THEN "JSONDecodeError" ELSE "RecursionError")

\* The calls json.loads makes before the scanner runs (loads, decode,
\* raw_decode) and the one the limit keeps back.
LoadsCalls == 4

\* sys.get_int_max_str_digits(): int() refuses a text of more digits with ValueError.
MaxStrDigits == 4300

\* XXXX of the \uXXXX whose backslash is at p, -1 when it is not four hex
\* digits; HexValue is the value of a hex digit, -1 for any other character.
Hex4(s, p) ==
    LET HexValue(c) ==
            CASE c \in Digits -> c - Char.zero
              [] c >= Char.a /\ c <= Char.f -> c - Char.a + 10
              [] c >= Char.A /\ c <= Char.F -> c - Char.A + 10
              [] OTHER -> -1
    IN
    Bind([j \in 2..5 |-> HexValue(CharAt(s, p + j))], LAMBDA h :
        IF \E j \in 2..5 : h[j] < 0 THEN -1
        ELSE 4096 * h[2] + 256 * h[3] + 16 * h[4] + h[5])

\* json.decoder BACKSLASH: the character a one-letter escape stands for, -1
\* for a letter that is no escape.
Backslash(c) ==
    CASE c = Char.quote -> Char.quote
      [] c = Char.backslash -> Char.backslash
      [] c = Char.slash -> Char.slash
      [] c = Char.b -> Char.backspace
      [] c = Char.f -> Char.formfeed
      [] c = Char.n -> Char.newline
      [] c = Char.r -> Char.return
      [] c = Char.t -> Char.tab
      [] OTHER -> -1

\* json.decoder scanstring(s, end, strict=True), idx at the character after
\* the opening quote.  A backslash starts an escape when an odd number of
\* backslashes runs up to it; the string closes at the first quote that no
\* escape takes.  Inside, a control character, a letter that is no escape
\* and a \u without four hex digits are errors; a \u high surrogate directly
\* followed by a \u low surrogate is one character.
ScanString(s, idx) ==
    Bind([p \in idx..Len(s) |->
            /\ s[p] = Char.backslash
            /\ \E run \in idx..p :
                  /\ \A j \in run..p : s[j] = Char.backslash
                  /\ run = idx \/ s[run - 1] # Char.backslash
                  /\ (p - run) % 2 = 0], LAMBDA escape :
    Bind({p \in idx..Len(s) : s[p] = Char.quote /\ ~(p > idx /\ escape[p - 1])},
         LAMBDA closes :
    IF closes = {} THEN ScanError("JSONDecodeError")
    ELSE
    Bind(CHOOSE p \in closes : \A r \in closes : p <= r, LAMBDA close :
    \* hex[p]: XXXX of a \uXXXX at p, -1 when that is not four hex digits, -2
    \* where no \u starts
    Bind([p \in (idx - 6)..(close + 5) |->
            IF p >= idx /\ p < close /\ escape[p] /\ s[p + 1] = Char.u
            THEN Hex4(s, p) ELSE -2], LAMBDA hex :
    LET high(p) == hex[p] >= 55296 /\ hex[p] <= 56319
        low(p) == hex[p] >= 56320 /\ hex[p] <= 57343
        invalid(p) ==
            \/ s[p] < 32
            \/ hex[p] = -1
            \/ escape[p] /\ s[p + 1] # Char.u /\ Backslash(s[p + 1]) < 0
        \* the character position p gives, -1 when it is part of an escape
        \* that began before it
        code(p) ==
            IF escape[p] /\ s[p + 1] # Char.u THEN Backslash(s[p + 1])
            ELSE IF low(p) /\ high(p - 6) THEN -1
            ELSE IF high(p) /\ low(p + 6)
            THEN 65536 + 1024 * (hex[p] - 55296) + (hex[p + 6] - 56320)
            ELSE IF escape[p] THEN hex[p]
            ELSE IF (p > idx /\ escape[p - 1]) \/ \E j \in 2..5 : hex[p - j] # -2 THEN -1
            ELSE s[p]
    IN  IF \E p \in idx..(close - 1) : invalid(p) THEN ScanError("JSONDecodeError")
        ELSE Scanned(PyStr(SelectSeq([p \in 1..(close - idx) |-> code(idx + p - 1)],
                                     LAMBDA c : c >= 0)),
                     close + 1)))))

\* NUMBER_RE: (-?(?:0|[1-9]\d*))(\.\d+)?([eE][-+]?\d+)? matched at idx.  An
\* integer part alone is int(text), with a fraction or an exponent float(text).
ScanNumber(s, idx) ==
    LET neg == CharAt(s, idx) = Char.minus IN
    Bind(IF neg THEN idx + 1 ELSE idx, LAMBDA first :
    Bind(IF CharAt(s, first) = Char.zero THEN first + 1 ELSE EndOfDigits(s, first),
         LAMBDA intEnd :
    Bind(IF CharAt(s, intEnd) = Char.dot /\ CharAt(s, intEnd + 1) \in Digits
         THEN EndOfDigits(s, intEnd + 1) ELSE intEnd, LAMBDA fracEnd :
    Bind(IF CharAt(s, fracEnd + 1) \in {Char.plus, Char.minus} THEN fracEnd + 2
         ELSE fracEnd + 1, LAMBDA expFirst :
    Bind(IF CharAt(s, fracEnd) \in {Char.e, Char.E} /\ CharAt(s, expFirst) \in Digits
         THEN EndOfDigits(s, expFirst) ELSE fracEnd, LAMBDA end :
    Bind(SubSeq(s, first, intEnd - 1), LAMBDA int :
    IF CharAt(s, first) \notin Digits THEN ScanError("StopIteration")
    ELSE IF end > intEnd
    THEN Scanned(PyFloat(FloatRepr(neg, int, SubSeq(s, intEnd + 1, fracEnd - 1),
                                   CharAt(s, fracEnd + 1) = Char.minus,
                                   SubSeq(s, expFirst, end - 1))),
                 end)
    ELSE IF Len(int) > MaxStrDigits THEN ScanError("ValueError")
    ELSE Scanned(PyIntOf(IF neg /\ int # <<Char.zero>> THEN <<Char.minus>> \o int ELSE int),
                 intEnd)))))))

\* What one turn of the loop of json.decoder JSONObject or JSONArray leaves:
\* more says that a comma followed and the loop goes on at idx with the
\* container acc, else res is what the function returns or raises.
Turn(more, res, idx, acc) == [more |-> more, res |-> res, idx |-> idx, acc |-> acc]

RECURSIVE ScanOnce(_, _, _), ScanItems(_, _, _, _, _, _), ScanContainer(_, _, _, _, _, _)

\* json.scanner scan_once with room calls still allowed under the
\* interpreter's recursion limit: an object and an array take one for as long
\* as they are scanned, and so does the call of parse_constant.  OpenRun is the
\* number of opening brackets in the run of brackets and whitespace at idx:
\* the scanner enters one array for each before it reads anything else.
ScanOnce(s, idx, room) ==
    LET OpenRun ==
            Cardinality({k \in idx..(FirstNotIn(s, {Char.lbracket, Char.space, Char.tab,
                                                    Char.newline, Char.return}, idx) - 1) :
                            s[k] = Char.lbracket})
    IN
    CASE CharAt(s, idx) = Char.quote ->
            Bind(ScanString(s, idx + 1), LAMBDA str :
                IF str.ok THEN str ELSE RaiseErrmsg(room))
      [] CharAt(s, idx) = Char.lbrace ->
            IF room < 1 THEN ScanError("RecursionError")
            ELSE ScanContainer(s, SkipWhitespace(s, idx + 1), PyDict(<<>>), 1, TRUE, room - 1)
      [] CharAt(s, idx) = Char.lbracket ->
            IF OpenRun > room THEN ScanError("RecursionError")
            ELSE ScanContainer(s, SkipWhitespace(s, idx + 1), PyList(<<>>), 1, FALSE, room - 1)
      [] CharAt(s, idx) = Char.n /\ Slice(s, idx, idx + 3) = Token.null ->
            Scanned(PyNone, idx + 4)
      [] CharAt(s, idx) = Char.t /\ Slice(s, idx, idx + 3) = Token.true ->
            Scanned(PyBool(TRUE), idx + 4)
      [] CharAt(s, idx) = Char.f /\ Slice(s, idx, idx + 4) = Token.false ->
            Scanned(PyBool(FALSE), idx + 5)
      [] CharAt(s, idx) \in Digits ->
            ScanNumber(s, idx)
      [] CharAt(s, idx) = Char.minus /\ CharAt(s, idx + 1) \in Digits ->
            ScanNumber(s, idx)
      [] CharAt(s, idx) = Char.N /\ Slice(s, idx, idx + 2) = Token.NaN ->
            IF room < 1 THEN ScanError("RecursionError") ELSE Scanned(PyFloat(FloatText.nan), idx + 3)
      [] CharAt(s, idx) = Char.I /\ Slice(s, idx, idx + 7) = Token.Infinity ->
            IF room < 1 THEN ScanError("RecursionError") ELSE Scanned(PyFloat(FloatText.inf), idx + 8)
      [] CharAt(s, idx) = Char.minus /\ Slice(s, idx, idx + 8) = Token.NegInfinity ->
            IF room < 1 THEN ScanError("RecursionError")
            ELSE Scanned(PyFloat(<<Char.minus>> \o FloatText.inf), idx + 9)
      [] OTHER -> ScanError("StopIteration")

\* JSONObject and JSONArray after a value: (idx at) a comma or the closing
\* character, acc the container with the value in it.
ScanEnd(s, idx, acc, closing, room) ==
    CASE CharAt(s, idx) = closing -> Turn(FALSE, Scanned(acc, idx + 1), idx, acc)
      [] CharAt(s, idx) = Char.comma /\ closing # Char.comma ->
            Turn(TRUE, ScanError(""), SkipWhitespace(s, idx + 1), acc)
      [] OTHER -> Turn(FALSE, RaiseErrmsg(room), idx, acc)

\* JSONObject with the value scanned
ScanObjectNext(s, idx, acc, key, val, room) ==
    IF ~val.ok THEN Turn(FALSE, val, idx, acc)
    ELSE ScanEnd(s, SkipWhitespace(s, val.end), SetKey(acc, key.v.s, val.v), Char.rbrace,
                 room)

\* JSONObject with the key scanned: the colon and the value
ScanObjectValue(s, idx, acc, key, room) ==
    IF ~key.ok THEN Turn(FALSE, RaiseErrmsg(room), idx, acc)
    ELSE IF CharAt(s, SkipWhitespace(s, key.end)) # Char.colon
    THEN Turn(FALSE, RaiseErrmsg(room), idx, acc)
    ELSE ScanObjectNext(s, idx, acc, key,
                        ScanOnce(s, SkipWhitespace(s, SkipWhitespace(s, key.end) + 1), room),
                        room)

\* One turn of JSONObject's loop: idx at the quote that opens the next key, acc
\* the dict of the pairs read so far; before the first key the object may close.
ScanObjectItem(s, idx, acc, room) ==
    CASE acc.d = <<>> /\ CharAt(s, idx) = Char.rbrace ->
            Turn(FALSE, Scanned(acc, idx + 1), idx, acc)
      [] CharAt(s, idx) = Char.quote ->
            ScanObjectValue(s, idx, acc, ScanString(s, idx + 1), room)
      [] OTHER -> Turn(FALSE, RaiseErrmsg(room), idx, acc)

\* JSONArray with the element scanned
ScanArrayNext(s, idx, acc, val, room) ==
    IF ~val.ok THEN Turn(FALSE, val, idx, acc)
    ELSE ScanEnd(s, SkipWhitespace(s, val.end),
                 [acc EXCEPT !.d = Append(acc.d, <<(<<>>), val.v>>)], Char.rbracket, room)

\* One turn of JSONArray's loop: idx at the next element, acc the list of the
\* elements read so far; before the first element the array may close.
ScanArrayItem(s, idx, acc, room) ==
    IF acc.d = <<>> /\ CharAt(s, idx) = Char.rbracket
    THEN Turn(FALSE, Scanned(acc, idx + 1), idx, acc)
    ELSE ScanArrayNext(s, idx, acc, ScanOnce(s, idx, room), room)

\* The turns after the first of them
ScanRest(s, n, object, room, first) ==
    IF ~first.more THEN first ELSE ScanItems(s, first.idx, first.acc, n, object, room)

\* Up to n turns of the loop, the first half of them and then the rest.
ScanItems(s, idx, acc, n, object, room) ==
    CASE n = 1 /\ object -> ScanObjectItem(s, idx, acc, room)
      [] n = 1 /\ ~object -> ScanArrayItem(s, idx, acc, room)
      [] OTHER -> ScanRest(s, n - (n \div 2), object, room,
                           ScanItems(s, idx, acc, n \div 2, object, room))

\* The loop after n turns: over, or twice as many turns again
ScanMore(s, n, object, room, turns) ==
    IF turns.more THEN ScanContainer(s, turns.idx, turns.acc, 2 * n, object, room)
    ELSE turns.res

\* The whole loop of JSONObject (object) or JSONArray, with room calls still
\* allowed inside it
ScanContainer(s, idx, acc, n, object, room) ==
    ScanMore(s, n, object, room, ScanItems(s, idx, acc, n, object, room))

JSONDecoder == PyClass(Str("json.decoder.JSONDecoder"))

DjangoJSONEncoder == PyClass(Str("django.core.serializers.json.DjangoJSONEncoder"))

\* The classes that encode JSON
EncoderClasses == {DjangoJSONEncoder, PyClass(Str("json.encoder.JSONEncoder"))}

\* An exception of type raised when the caller of json.loads has at least need
\* calls left, RecursionError when it has fewer.
RaiseWith(type, need, remaining) ==
    [exc |-> Exc(IF remaining >= need THEN type ELSE "RecursionError", "", <<>>),
     ret |-> PyNone]

\* json.loads(s, cls=cls), called from a frame that may nest remaining calls
\* more before the interpreter's recursion limit (sys.getrecursionlimit()
\* less the depth of that frame): a str that starts with the byte order mark
\* is refused; then cls=None decodes with JSONDecoder, and any other cls is
\* called without arguments and the result asked to decode: an encoder has no
\* decode method, a function of the application and a FieldReference want
\* their argument.  RecursionError is raised where the limit is reached, in
\* the calls of json.loads itself, in the scanner, which nests one call for
\* each object and array it is in, and where an exception is built.
JsonLoads(s, cls, remaining) ==
    IF CharAt(s, 1) = Char.bom THEN RaiseWith("JSONDecodeError", LoadsCalls, remaining)
    ELSE CASE cls \in {PyNone, JSONDecoder} ->
                IF remaining < LoadsCalls THEN RaiseWith("RecursionError", 0, remaining)
                ELSE
                Bind(ScanOnce(s, SkipWhitespace(s, 1), remaining - LoadsCalls), LAMBDA got :
                    CASE ~got.ok /\ got.exc = "StopIteration" ->
                            RaiseWith("JSONDecodeError", LoadsCalls + 2, remaining)
                      [] ~got.ok /\ got.exc # "StopIteration" ->
                            [exc |-> Exc(got.exc, "", <<>>), ret |-> PyNone]
                      [] got.ok /\ SkipWhitespace(s, got.end) # Len(s) + 1 ->
                            RaiseWith("JSONDecodeError", LoadsCalls + 1, remaining)
                      [] OTHER -> [exc |-> NoExc, ret |-> got.v])
           [] cls \in EncoderClasses -> RaiseWith("AttributeError", 3, remaining)
           [] cls.t = "FieldReference" -> RaiseWith("TypeError", 3, remaining)
           [] cls.t = "function" -> RaiseWith("TypeError", 2, remaining)
(***************************************************************************)
(* Python built-ins the field uses                                         *)
(***************************************************************************)
\* s.split(sep) for a one-character sep: the pieces between the separators.
Split(s, sep) ==
    LET seps   == {k \in 1..Len(s) : s[k] = sep}
        at(j)  == CHOOSE k \in seps : Cardinality({m \in seps : m < k}) = j - 1
        pieces == Cardinality(seps) + 1
    IN  [j \in 1..pieces |->
            SubSeq(s, IF j = 1 THEN 1 ELSE at(j - 1) + 1,
                      IF j = pieces THEN Len(s) ELSE at(j) - 1)]

\* The ranges of code points that str.isprintable() refuses (Unicode 14.0.0).
NonPrintable ==
    <<<<0, 31>>, <<127, 160>>, <<173, 173>>, <<888, 889>>, <<896, 899>>, <<907, 907>>, <<909, 909>>,
      <<930, 930>>, <<1328, 1328>>, <<1367, 1368>>, <<1419, 1420>>, <<1424, 1424>>, <<1480, 1487>>,
      <<1515, 1518>>, <<1525, 1541>>, <<1564, 1564>>, <<1757, 1757>>, <<1806, 1807>>, <<1867, 1868>>,
      <<1970, 1983>>, <<2043, 2044>>, <<2094, 2095>>, <<2111, 2111>>, <<2140, 2141>>, <<2143, 2143>>,
      <<2155, 2159>>, <<2191, 2199>>, <<2274, 2274>>, <<2436, 2436>>, <<2445, 2446>>, <<2449, 2450>>,
      <<2473, 2473>>, <<2481, 2481>>, <<2483, 2485>>, <<2490, 2491>>, <<2501, 2502>>, <<2505, 2506>>,
      <<2511, 2518>>, <<2520, 2523>>, <<2526, 2526>>, <<2532, 2533>>, <<2559, 2560>>, <<2564, 2564>>,
      <<2571, 2574>>, <<2577, 2578>>, <<2601, 2601>>, <<2609, 2609>>, <<2612, 2612>>, <<2615, 2615>>,
      <<2618, 2619>>, <<2621, 2621>>, <<2627, 2630>>, <<2633, 2634>>, <<2638, 2640>>, <<2642, 2648>>,
      <<2653, 2653>>, <<2655, 2661>>, <<2679, 2688>>, <<2692, 2692>>, <<2702, 2702>>, <<2706, 2706>>,
      <<2729, 2729>>, <<2737, 2737>>, <<2740, 2740>>, <<2746, 2747>>, <<2758, 2758>>, <<2762, 2762>>,
      <<2766, 2767>>, <<2769, 2783>>, <<2788, 2789>>, <<2802, 2808>>, <<2816, 2816>>, <<2820, 2820>>,
      <<2829, 2830>>, <<2833, 2834>>, <<2857, 2857>>, <<2865, 2865>>, <<2868, 2868>>, <<2874, 2875>>,
      <<2885, 2886>>, <<2889, 2890>>, <<2894, 2900>>, <<2904, 2907>>, <<2910, 2910>>, <<2916, 2917>>,
      <<2936, 2945>>, <<2948, 2948>>, <<2955, 2957>>, <<2961, 2961>>, <<2966, 2968>>, <<2971, 2971>>,
      <<2973, 2973>>, <<2976, 2978>>, <<2981, 2983>>, <<2987, 2989>>, <<3002, 3005>>, <<3011, 3013>>,
      <<3017, 3017>>, <<3022, 3023>>, <<3025, 3030>>, <<3032, 3045>>, <<3067, 3071>>, <<3085, 3085>>,
      <<3089, 3089>>, <<3113, 3113>>, <<3130, 3131>>, <<3141, 3141>>, <<3145, 3145>>, <<3150, 3156>>,
      <<3159, 3159>>, <<3163, 3164>>, <<3166, 3167>>, <<3172, 3173>>, <<3184, 3190>>, <<3213, 3213>>,
      <<3217, 3217>>, <<3241, 3241>>, <<3252, 3252>>, <<3258, 3259>>, <<3269, 3269>>, <<3273, 3273>>,
      <<3278, 3284>>, <<3287, 3292>>, <<3295, 3295>>, <<3300, 3301>>, <<3312, 3312>>, <<3315, 3327>>,
      <<3341, 3341>>, <<3345, 3345>>, <<3397, 3397>>, <<3401, 3401>>, <<3408, 3411>>, <<3428, 3429>>,
      <<3456, 3456>>, <<3460, 3460>>, <<3479, 3481>>, <<3506, 3506>>, <<3516, 3516>>, <<3518, 3519>>,
      <<3527, 3529>>, <<3531, 3534>>, <<3541, 3541>>, <<3543, 3543>>, <<3552, 3557>>, <<3568, 3569>>,
      <<3573, 3584>>, <<3643, 3646>>, <<3676, 3712>>, <<3715, 3715>>, <<3717, 3717>>, <<3723, 3723>>,
      <<3748, 3748>>, <<3750, 3750>>, <<3774, 3775>>, <<3781, 3781>>, <<3783, 3783>>, <<3790, 3791>>,
      <<3802, 3803>>, <<3808, 3839>>, <<3912, 3912>>, <<3949, 3952>>, <<3992, 3992>>, <<4029, 4029>>,
      <<4045, 4045>>, <<4059, 4095>>, <<4294, 4294>>, <<4296, 4300>>, <<4302, 4303>>, <<4681, 4681>>,
      <<4686, 4687>>, <<4695, 4695>>, <<4697, 4697>>, <<4702, 4703>>, <<4745, 4745>>, <<4750, 4751>>,
      <<4785, 4785>>, <<4790, 4791>>, <<4799, 4799>>, <<4801, 4801>>, <<4806, 4807>>, <<4823, 4823>>,
      <<4881, 4881>>, <<4886, 4887>>, <<4955, 4956>>, <<4989, 4991>>, <<5018, 5023>>, <<5110, 5111>>,
      <<5118, 5119>>, <<5760, 5760>>, <<5789, 5791>>, <<5881, 5887>>, <<5910, 5918>>, <<5943, 5951>>,
      <<5972, 5983>>, <<5997, 5997>>, <<6001, 6001>>, <<6004, 6015>>, <<6110, 6111>>, <<6122, 6127>>,
      <<6138, 6143>>, <<6158, 6158>>, <<6170, 6175>>, <<6265, 6271>>, <<6315, 6319>>, <<6390, 6399>>,
      <<6431, 6431>>, <<6444, 6447>>, <<6460, 6463>>, <<6465, 6467>>, <<6510, 6511>>, <<6517, 6527>>,
      <<6572, 6575>>, <<6602, 6607>>, <<6619, 6621>>, <<6684, 6685>>, <<6751, 6751>>, <<6781, 6782>>,
      <<6794, 6799>>, <<6810, 6815>>, <<6830, 6831>>, <<6863, 6911>>, <<6989, 6991>>, <<7039, 7039>>,
      <<7156, 7163>>, <<7224, 7226>>, <<7242, 7244>>, <<7305, 7311>>, <<7355, 7356>>, <<7368, 7375>>,
      <<7419, 7423>>, <<7958, 7959>>, <<7966, 7967>>, <<8006, 8007>>, <<8014, 8015>>, <<8024, 8024>>,
      <<8026, 8026>>, <<8028, 8028>>, <<8030, 8030>>, <<8062, 8063>>, <<8117, 8117>>, <<8133, 8133>>,
      <<8148, 8149>>, <<8156, 8156>>, <<8176, 8177>>, <<8181, 8181>>, <<8191, 8207>>, <<8232, 8239>>,
      <<8287, 8303>>, <<8306, 8307>>, <<8335, 8335>>, <<8349, 8351>>, <<8385, 8399>>, <<8433, 8447>>,
      <<8588, 8591>>, <<9255, 9279>>, <<9291, 9311>>, <<11124, 11125>>, <<11158, 11158>>, <<11508,
      11512>>, <<11558, 11558>>, <<11560, 11564>>, <<11566, 11567>>, <<11624, 11630>>, <<11633,
      11646>>, <<11671, 11679>>, <<11687, 11687>>, <<11695, 11695>>, <<11703, 11703>>, <<11711,
      11711>>, <<11719, 11719>>, <<11727, 11727>>, <<11735, 11735>>, <<11743, 11743>>, <<11870,
      11903>>, <<11930, 11930>>, <<12020, 12031>>, <<12246, 12271>>, <<12284, 12288>>, <<12352,
      12352>>, <<12439, 12440>>, <<12544, 12548>>, <<12592, 12592>>, <<12687, 12687>>, <<12772,
      12783>>, <<12831, 12831>>, <<42125, 42127>>, <<42183, 42191>>, <<42540, 42559>>, <<42744,
      42751>>, <<42955, 42959>>, <<42962, 42962>>, <<42964, 42964>>, <<42970, 42993>>, <<43053,
      43055>>, <<43066, 43071>>, <<43128, 43135>>, <<43206, 43213>>, <<43226, 43231>>, <<43348,
      43358>>, <<43389, 43391>>, <<43470, 43470>>, <<43482, 43485>>, <<43519, 43519>>, <<43575,
      43583>>, <<43598, 43599>>, <<43610, 43611>>, <<43715, 43738>>, <<43767, 43776>>, <<43783,
      43784>>, <<43791, 43792>>, <<43799, 43807>>, <<43815, 43815>>, <<43823, 43823>>, <<43884,
      43887>>, <<44014, 44015>>, <<44026, 44031>>, <<55204, 55215>>, <<55239, 55242>>, <<55292,
      63743>>, <<64110, 64111>>, <<64218, 64255>>, <<64263, 64274>>, <<64280, 64284>>, <<64311,
      64311>>, <<64317, 64317>>, <<64319, 64319>>, <<64322, 64322>>, <<64325, 64325>>, <<64451,
      64466>>, <<64912, 64913>>, <<64968, 64974>>, <<64976, 65007>>, <<65050, 65055>>, <<65107,
      65107>>, <<65127, 65127>>, <<65132, 65135>>, <<65141, 65141>>, <<65277, 65280>>, <<65471,
      65473>>, <<65480, 65481>>, <<65488, 65489>>, <<65496, 65497>>, <<65501, 65503>>, <<65511,
      65511>>, <<65519, 65531>>, <<65534, 65535>>, <<65548, 65548>>, <<65575, 65575>>, <<65595,
      65595>>, <<65598, 65598>>, <<65614, 65615>>, <<65630, 65663>>, <<65787, 65791>>, <<65795,
      65798>>, <<65844, 65846>>, <<65935, 65935>>, <<65949, 65951>>, <<65953, 65999>>, <<66046,
      66175>>, <<66205, 66207>>, <<66257, 66271>>, <<66300, 66303>>, <<66340, 66348>>, <<66379,
      66383>>, <<66427, 66431>>, <<66462, 66462>>, <<66500, 66503>>, <<66518, 66559>>, <<66718,
      66719>>, <<66730, 66735>>, <<66772, 66775>>, <<66812, 66815>>, <<66856, 66863>>, <<66916,
      66926>>, <<66939, 66939>>, <<66955, 66955>>, <<66963, 66963>>, <<66966, 66966>>, <<66978,
      66978>>, <<66994, 66994>>, <<67002, 67002>>, <<67005, 67071>>, <<67383, 67391>>, <<67414,
      67423>>, <<67432, 67455>>, <<67462, 67462>>, <<67505, 67505>>, <<67515, 67583>>, <<67590,
      67591>>, <<67593, 67593>>, <<67638, 67638>>, <<67641, 67643>>, <<67645, 67646>>, <<67670,
      67670>>, <<67743, 67750>>, <<67760, 67807>>, <<67827, 67827>>, <<67830, 67834>>, <<67868,
      67870>>, <<67898, 67902>>, <<67904, 67967>>, <<68024, 68027>>, <<68048, 68049>>, <<68100,
      68100>>, <<68103, 68107>>, <<68116, 68116>>, <<68120, 68120>>, <<68150, 68151>>, <<68155,
      68158>>, <<68169, 68175>>, <<68185, 68191>>, <<68256, 68287>>, <<68327, 68330>>, <<68343,
      68351>>, <<68406, 68408>>, <<68438, 68439>>, <<68467, 68471>>, <<68498, 68504>>, <<68509,
      68520>>, <<68528, 68607>>, <<68681, 68735>>, <<68787, 68799>>, <<68851, 68857>>, <<68904,
      68911>>, <<68922, 69215>>, <<69247, 69247>>, <<69290, 69290>>, <<69294, 69295>>, <<69298,
      69375>>, <<69416, 69423>>, <<69466, 69487>>, <<69514, 69551>>, <<69580, 69599>>, <<69623,
      69631>>, <<69710, 69713>>, <<69750, 69758>>, <<69821, 69821>>, <<69827, 69839>>, <<69865,
      69871>>, <<69882, 69887>>, <<69941, 69941>>, <<69960, 69967>>, <<70007, 70015>>, <<70112,
      70112>>, <<70133, 70143>>, <<70162, 70162>>, <<70207, 70271>>, <<70279, 70279>>, <<70281,
      70281>>, <<70286, 70286>>, <<70302, 70302>>, <<70314, 70319>>, <<70379, 70383>>, <<70394,
      70399>>, <<70404, 70404>>, <<70413, 70414>>, <<70417, 70418>>, <<70441, 70441>>, <<70449,
      70449>>, <<70452, 70452>>, <<70458, 70458>>, <<70469, 70470>>, <<70473, 70474>>, <<70478,
      70479>>, <<70481, 70486>>, <<70488, 70492>>, <<70500, 70501>>, <<70509, 70511>>, <<70517,
      70655>>, <<70748, 70748>>, <<70754, 70783>>, <<70856, 70863>>, <<70874, 71039>>, <<71094,
      71095>>, <<71134, 71167>>, <<71237, 71247>>, <<71258, 71263>>, <<71277, 71295>>, <<71354,
      71359>>, <<71370, 71423>>, <<71451, 71452>>, <<71468, 71471>>, <<71495, 71679>>, <<71740,
      71839>>, <<71923, 71934>>, <<71943, 71944>>, <<71946, 71947>>, <<71956, 71956>>, <<71959,
      71959>>, <<71990, 71990>>, <<71993, 71994>>, <<72007, 72015>>, <<72026, 72095>>, <<72104,
      72105>>, <<72152, 72153>>, <<72165, 72191>>, <<72264, 72271>>, <<72355, 72367>>, <<72441,
      72703>>, <<72713, 72713>>, <<72759, 72759>>, <<72774, 72783>>, <<72813, 72815>>, <<72848,
      72849>>, <<72872, 72872>>, <<72887, 72959>>, <<72967, 72967>>, <<72970, 72970>>, <<73015,
      73017>>, <<73019, 73019>>, <<73022, 73022>>, <<73032, 73039>>, <<73050, 73055>>, <<73062,
      73062>>, <<73065, 73065>>, <<73103, 73103>>, <<73106, 73106>>, <<73113, 73119>>, <<73130,
      73439>>, <<73465, 73647>>, <<73649, 73663>>, <<73714, 73726>>, <<74650, 74751>>, <<74863,
      74863>>, <<74869, 74879>>, <<75076, 77711>>, <<77811, 77823>>, <<78895, 82943>>, <<83527,
      92159>>, <<92729, 92735>>, <<92767, 92767>>, <<92778, 92781>>, <<92863, 92863>>, <<92874,
      92879>>, <<92910, 92911>>, <<92918, 92927>>, <<92998, 93007>>, <<93018, 93018>>, <<93026,
      93026>>, <<93048, 93052>>, <<93072, 93759>>, <<93851, 93951>>, <<94027, 94030>>, <<94088,
      94094>>, <<94112, 94175>>, <<94181, 94191>>, <<94194, 94207>>, <<100344, 100351>>, <<101590,
      101631>>, <<101641, 110575>>, <<110580, 110580>>, <<110588, 110588>>, <<110591, 110591>>,
      <<110883, 110927>>, <<110931, 110947>>, <<110952, 110959>>, <<111356, 113663>>, <<113771,
      113775>>, <<113789, 113791>>, <<113801, 113807>>, <<113818, 113819>>, <<113824, 118527>>,
      <<118574, 118575>>, <<118599, 118607>>, <<118724, 118783>>, <<119030, 119039>>, <<119079,
      119080>>, <<119155, 119162>>, <<119275, 119295>>, <<119366, 119519>>, <<119540, 119551>>,
      <<119639, 119647>>, <<119673, 119807>>, <<119893, 119893>>, <<119965, 119965>>, <<119968,
      119969>>, <<119971, 119972>>, <<119975, 119976>>, <<119981, 119981>>, <<119994, 119994>>,
      <<119996, 119996>>, <<120004, 120004>>, <<120070, 120070>>, <<120075, 120076>>, <<120085,
      120085>>, <<120093, 120093>>, <<120122, 120122>>, <<120127, 120127>>, <<120133, 120133>>,
      <<120135, 120137>>, <<120145, 120145>>, <<120486, 120487>>, <<120780, 120781>>, <<121484,
      121498>>, <<121504, 121504>>, <<121520, 122623>>, <<122655, 122879>>, <<122887, 122887>>,
      <<122905, 122906>>, <<122914, 122914>>, <<122917, 122917>>, <<122923, 123135>>, <<123181,
      123183>>, <<123198, 123199>>, <<123210, 123213>>, <<123216, 123535>>, <<123567, 123583>>,
      <<123642, 123646>>, <<123648, 124895>>, <<124903, 124903>>, <<124908, 124908>>, <<124911,
      124911>>, <<124927, 124927>>, <<125125, 125126>>, <<125143, 125183>>, <<125260, 125263>>,
      <<125274, 125277>>, <<125280, 126064>>, <<126133, 126208>>, <<126270, 126463>>, <<126468,
      126468>>, <<126496, 126496>>, <<126499, 126499>>, <<126501, 126502>>, <<126504, 126504>>,
      <<126515, 126515>>, <<126520, 126520>>, <<126522, 126522>>, <<126524, 126529>>, <<126531,
      126534>>, <<126536, 126536>>, <<126538, 126538>>, <<126540, 126540>>, <<126544, 126544>>,
      <<126547, 126547>>, <<126549, 126550>>, <<126552, 126552>>, <<126554, 126554>>, <<126556,
      126556>>, <<126558, 126558>>, <<126560, 126560>>, <<126563, 126563>>, <<126565, 126566>>,
      <<126571, 126571>>, <<126579, 126579>>, <<126584, 126584>>, <<126589, 126589>>, <<126591,
      126591>>, <<126602, 126602>>, <<126620, 126624>>, <<126628, 126628>>, <<126634, 126634>>,
      <<126652, 126703>>, <<126706, 126975>>, <<127020, 127023>>, <<127124, 127135>>, <<127151,
      127152>>, <<127168, 127168>>, <<127184, 127184>>, <<127222, 127231>>, <<127406, 127461>>,
      <<127491, 127503>>, <<127548, 127551>>, <<127561, 127567>>, <<127570, 127583>>, <<127590,
      127743>>, <<128728, 128732>>, <<128749, 128751>>, <<128765, 128767>>, <<128884, 128895>>,
      <<128985, 128991>>, <<129004, 129007>>, <<129009, 129023>>, <<129036, 129039>>, <<129096,
      129103>>, <<129114, 129119>>, <<129160, 129167>>, <<129198, 129199>>, <<129202, 129279>>,
      <<129620, 129631>>, <<129646, 129647>>, <<129653, 129655>>, <<129661, 129663>>, <<129671,
      129679>>, <<129709, 129711>>, <<129723, 129727>>, <<129734, 129743>>, <<129754, 129759>>,
      <<129768, 129775>>, <<129783, 129791>>, <<129939, 129939>>, <<129995, 130031>>, <<130042,
      131071>>, <<173792, 173823>>, <<177977, 177983>>, <<178206, 178207>>, <<183970, 183983>>,
      <<191457, 194559>>, <<195102, 196607>>, <<201547, 917759>>, <<918000, 1114111>>>>

\* text.split(' ')
Words(text) == Split(text, Char.space)

(***************************************************************************)
(* Python objects: their types, attributes, truth and repr                 *)
(* (CPython 3.11; an address is written 0x...)                             *)
(***************************************************************************)
\* type(v).__name__ of the built-in types
TypeNames ==
    [t \in {"int", "bool", "float", "str", "NoneType", "dict", "list", "function", "type",
            "builtin_function_or_method", "method-wrapper", "method", "object"} |-> Str(t)]

\* The types whose instances are objects of a class written in Python: v.s is
\* the class, module and name, and v.d the instance's __dict__.
InstanceTypes == {"object", "FieldReference", "JSONSchemaField"}

\* The module and the name of a class written as module.name; a built-in
\* class is written as its name alone.
ClassModule(class) ==
    Bind(Split(class, Char.dot), LAMBDA pieces :
        IF Len(pieces) = 1 THEN Str("builtins")
        ELSE SubSeq(class, 1, Len(class) - Len(pieces[Len(pieces)]) - 1))

ClassName(class) == Bind(Split(class, Char.dot), LAMBDA pieces : pieces[Len(pieces)])

\* type(v)
TypeOf(v) == PyClass(IF v.t \in InstanceTypes THEN v.s ELSE TypeNames[v.t])

\* The attributes a function and a method keep what they are bound to in
Slot ==
    [self |-> Str("__self__"), func |-> Str("__func__"), objclass |-> Str("__objclass__"),
     module |-> Str("__module__")]

\* An object of a class written in Python, with its attributes
PyObject(class, attrs) == PyVal("object", 0, class, attrs)

\* A function the module defines under the name
PyFunction(module, name) == PyVal("function", 0, name, << <<Slot.module, PyStr(module)>> >>)

\* A built-in method read from obj: bound to obj, to its class or to object;
\* a static method is kept by the class and tells None as its __self__.
BuiltinMethod(name, obj, self) ==
    PyVal("builtin_function_or_method", IF self = "static" THEN 1 ELSE 0, name,
          << <<Slot.self, CASE self = "obj" -> obj
                            [] self = "object" -> PyClass(TypeNames["object"])
                            [] OTHER -> TypeOf(obj)>> >>)

\* The method-wrapper of the slot name of class owner, bound to obj
MethodWrapper(name, obj, owner) ==
    PyVal("method-wrapper", 0, name,
          << <<Slot.self, obj>>, <<Slot.objclass, PyClass(owner)>> >>)

\* The method of a class written in Python, bound to obj
BoundMethod(func, obj) ==
    PyVal("method", 0, func.s, << <<Slot.self, obj>>, <<Slot.func, func>> >>)

\* The methods the built-in types give their instances, by dir(): for the
\* type t, the names that read as a value of the given kind, bound to self,
\* a method-wrapper being the slot of the class owner.
BuiltinMethods ==
    <<
     [t |-> "int", kind |-> "method-wrapper", self |-> "obj", owner |-> Str("int"),
      names |-> Words(Str("__abs__ __add__ __and__ __bool__ __divmod__ __eq__ __float__ "
                      \o "__floordiv__ __ge__ __getattribute__ __gt__ __hash__ __index__ __int__ "
                      \o "__invert__ __le__ __lshift__ __lt__ __mod__ __mul__ __ne__ __neg__ "
                      \o "__or__ __pos__ __pow__ __radd__ __rand__ __rdivmod__ __repr__ "
                      \o "__rfloordiv__ __rlshift__ __rmod__ __rmul__ __ror__ __rpow__ "
                      \o "__rrshift__ __rshift__ __rsub__ __rtruediv__ __rxor__ __sub__ "
                      \o "__truediv__ __xor__"))],
     [t |-> "int", kind |-> "builtin_function_or_method", self |-> "obj", owner |-> Str(""),
      names |-> Words(Str("__ceil__ __dir__ __floor__ __format__ __getnewargs__ __getstate__ "
                      \o "__reduce__ __reduce_ex__ __round__ __sizeof__ __trunc__ "
                      \o "as_integer_ratio bit_count bit_length conjugate to_bytes"))],
     [t |-> "int", kind |-> "method-wrapper", self |-> "obj", owner |-> Str("object"),
      names |-> Words(Str("__delattr__ __init__ __setattr__ __str__"))],
     [t |-> "int", kind |-> "builtin_function_or_method", self |-> "class", owner |-> Str(""),
      names |-> Words(Str("__init_subclass__ __new__ __subclasshook__ from_bytes"))],
     [t |-> "bool", kind |-> "method-wrapper", self |-> "obj", owner |-> Str("int"),
      names |-> Words(Str("__abs__ __add__ __bool__ __divmod__ __eq__ __float__ __floordiv__ "
                      \o "__ge__ __getattribute__ __gt__ __hash__ __index__ __int__ __invert__ "
                      \o "__le__ __lshift__ __lt__ __mod__ __mul__ __ne__ __neg__ __pos__ "
                      \o "__pow__ __radd__ __rdivmod__ __rfloordiv__ __rlshift__ __rmod__ "
                      \o "__rmul__ __rpow__ __rrshift__ __rshift__ __rsub__ __rtruediv__ __sub__ "
                      \o "__truediv__"))],
     [t |-> "bool", kind |-> "method-wrapper", self |-> "obj", owner |-> Str("bool"),
      names |-> Words(Str("__and__ __or__ __rand__ __repr__ __ror__ __rxor__ __xor__"))],
     [t |-> "bool", kind |-> "builtin_function_or_method", self |-> "obj", owner |-> Str(""),
      names |-> Words(Str("__ceil__ __dir__ __floor__ __format__ __getnewargs__ __getstate__ "
                      \o "__reduce__ __reduce_ex__ __round__ __sizeof__ __trunc__ "
                      \o "as_integer_ratio bit_count bit_length conjugate to_bytes"))],
     [t |-> "bool", kind |-> "method-wrapper", self |-> "obj", owner |-> Str("object"),
      names |-> Words(Str("__delattr__ __init__ __setattr__ __str__"))],
     [t |-> "bool", kind |-> "builtin_function_or_method", self |-> "class", owner |-> Str(""),
      names |-> Words(Str("__init_subclass__ __new__ __subclasshook__ from_bytes"))],
     [t |-> "float", kind |-> "method-wrapper", self |-> "obj", owner |-> Str("float"),
      names |-> Words(Str("__abs__ __add__ __bool__ __divmod__ __eq__ __float__ __floordiv__ "
                      \o "__ge__ __getattribute__ __gt__ __hash__ __int__ __le__ __lt__ __mod__ "
                      \o "__mul__ __ne__ __neg__ __pos__ __pow__ __radd__ __rdivmod__ __repr__ "
                      \o "__rfloordiv__ __rmod__ __rmul__ __rpow__ __rsub__ __rtruediv__ __sub__ "
                      \o "__truediv__"))],
     [t |-> "float", kind |-> "builtin_function_or_method", self |-> "obj", owner |-> Str(""),
      names |-> Words(Str("__ceil__ __dir__ __floor__ __format__ __getnewargs__ __getstate__ "
                      \o "__reduce__ __reduce_ex__ __round__ __sizeof__ __trunc__ "
                      \o "as_integer_ratio conjugate hex is_integer"))],
     [t |-> "float", kind |-> "method-wrapper", self |-> "obj", owner |-> Str("object"),
      names |-> Words(Str("__delattr__ __init__ __setattr__ __str__"))],
     [t |-> "float", kind |-> "builtin_function_or_method", self |-> "class", owner |-> Str(""),
      names |-> Words(Str("__getformat__ __init_subclass__ __new__ __subclasshook__ fromhex"))],
     [t |-> "str", kind |-> "method-wrapper", self |-> "obj", owner |-> Str("str"),
      names |-> Words(Str("__add__ __contains__ __eq__ __ge__ __getattribute__ __getitem__ __gt__ "
                      \o "__hash__ __iter__ __le__ __len__ __lt__ __mod__ __mul__ __ne__ "
                      \o "__repr__ __rmod__ __rmul__ __str__"))],
     [t |-> "str", kind |-> "method-wrapper", self |-> "obj", owner |-> Str("object"),
      names |-> Words(Str("__delattr__ __init__ __setattr__"))],
     [t |-> "str", kind |-> "builtin_function_or_method", self |-> "obj", owner |-> Str(""),
      names |-> Words(Str("__dir__ __format__ __getnewargs__ __getstate__ __reduce__ "
                      \o "__reduce_ex__ __sizeof__ capitalize casefold center count encode "
                      \o "endswith expandtabs find format format_map index isalnum isalpha "
                      \o "isascii isdecimal isdigit isidentifier islower isnumeric isprintable "
                      \o "isspace istitle isupper join ljust lower lstrip partition removeprefix "
                      \o "removesuffix replace rfind rindex rjust rpartition rsplit rstrip split "
                      \o "splitlines startswith strip swapcase title translate upper zfill"))],
     [t |-> "str", kind |-> "builtin_function_or_method", self |-> "class", owner |-> Str(""),
      names |-> Words(Str("__init_subclass__ __new__ __subclasshook__"))],
     [t |-> "str", kind |-> "builtin_function_or_method", self |-> "static", owner |-> Str(""),
      names |-> Words(Str("maketrans"))],
     [t |-> "NoneType", kind |-> "method-wrapper", self |-> "obj", owner |-> Str("NoneType"),
      names |-> Words(Str("__bool__ __repr__"))],
     [t |-> "NoneType", kind |-> "method-wrapper", self |-> "obj", owner |-> Str("object"),
      names |-> Words(Str("__delattr__ __eq__ __ge__ __getattribute__ __gt__ __hash__ __init__ "
                      \o "__le__ __lt__ __ne__ __setattr__ __str__"))],
     [t |-> "NoneType", kind |-> "builtin_function_or_method", self |-> "obj", owner |-> Str(""),
      names |-> Words(Str("__dir__ __format__ __getstate__ __reduce__ __reduce_ex__ __sizeof__"))],
     [t |-> "NoneType", kind |-> "builtin_function_or_method", self |-> "class", owner |-> Str(""),
      names |-> Words(Str("__init_subclass__ __new__ __subclasshook__"))],
     [t |-> "dict", kind |-> "builtin_function_or_method", self |-> "class", owner |-> Str(""),
      names |-> Words(Str("__class_getitem__ __init_subclass__ __new__ __subclasshook__ fromkeys"))],
     [t |-> "dict", kind |-> "builtin_function_or_method", self |-> "obj", owner |-> Str(""),
      names |-> Words(Str("__contains__ __dir__ __format__ __getitem__ __getstate__ __reduce__ "
                      \o "__reduce_ex__ __reversed__ __sizeof__ clear copy get items keys pop "
                      \o "popitem setdefault update values"))],
     [t |-> "dict", kind |-> "method-wrapper", self |-> "obj", owner |-> Str("object"),
      names |-> Words(Str("__delattr__ __setattr__ __str__"))],
     [t |-> "dict", kind |-> "method-wrapper", self |-> "obj", owner |-> Str("dict"),
      names |-> Words(Str("__delitem__ __eq__ __ge__ __getattribute__ __gt__ __init__ __ior__ "
                      \o "__iter__ __le__ __len__ __lt__ __ne__ __or__ __repr__ __ror__ "
                      \o "__setitem__"))],
     [t |-> "list", kind |-> "method-wrapper", self |-> "obj", owner |-> Str("list"),
      names |-> Words(Str("__add__ __contains__ __delitem__ __eq__ __ge__ __getattribute__ __gt__ "
                      \o "__iadd__ __imul__ __init__ __iter__ __le__ __len__ __lt__ __mul__ "
                      \o "__ne__ __repr__ __rmul__ __setitem__"))],
     [t |-> "list", kind |-> "builtin_function_or_method", self |-> "class", owner |-> Str(""),
      names |-> Words(Str("__class_getitem__ __init_subclass__ __new__ __subclasshook__"))],
     [t |-> "list", kind |-> "method-wrapper", self |-> "obj", owner |-> Str("object"),
      names |-> Words(Str("__delattr__ __setattr__ __str__"))],
     [t |-> "list", kind |-> "builtin_function_or_method", self |-> "obj", owner |-> Str(""),
      names |-> Words(Str("__dir__ __format__ __getitem__ __getstate__ __reduce__ __reduce_ex__ "
                      \o "__reversed__ __sizeof__ append clear copy count extend index insert "
                      \o "pop remove reverse sort"))],
     [t |-> "object", kind |-> "method-wrapper", self |-> "obj", owner |-> Str("object"),
      names |-> Words(Str("__delattr__ __eq__ __ge__ __getattribute__ __gt__ __hash__ __init__ "
                      \o "__le__ __lt__ __ne__ __repr__ __setattr__ __str__"))],
     [t |-> "object", kind |-> "builtin_function_or_method", self |-> "obj", owner |-> Str(""),
      names |-> Words(Str("__dir__ __format__ __getstate__ __reduce__ __reduce_ex__ __sizeof__"))],
     [t |-> "object", kind |-> "builtin_function_or_method", self |-> "class", owner |-> Str(""),
      names |-> Words(Str("__init_subclass__ __subclasshook__"))],
     [t |-> "object", kind |-> "builtin_function_or_method", self |-> "object", owner |-> Str(""),
      names |-> Words(Str("__new__"))],
     [t |-> "function", kind |-> "method-wrapper", self |-> "obj", owner |-> Str("function"),
      names |-> Words(Str("__call__ __get__ __repr__"))],
     [t |-> "function", kind |-> "method-wrapper", self |-> "obj", owner |-> Str("object"),
      names |-> Words(Str("__delattr__ __eq__ __ge__ __getattribute__ __gt__ __hash__ __init__ "
                      \o "__le__ __lt__ __ne__ __setattr__ __str__"))],
     [t |-> "function", kind |-> "builtin_function_or_method", self |-> "obj", owner |-> Str(""),
      names |-> Words(Str("__dir__ __format__ __getstate__ __reduce__ __reduce_ex__ __sizeof__"))],
     [t |-> "function", kind |-> "builtin_function_or_method", self |-> "class", owner |-> Str(""),
      names |-> Words(Str("__init_subclass__ __new__ __subclasshook__"))],
     [t |-> "builtin_function_or_method", kind |-> "method-wrapper", self |-> "obj", owner |-> Str("builtin_function_or_method"),
      names |-> Words(Str("__call__ __eq__ __ge__ __getattribute__ __gt__ __hash__ __le__ __lt__ "
                      \o "__ne__ __repr__"))],
     [t |-> "builtin_function_or_method", kind |-> "method-wrapper", self |-> "obj", owner |-> Str("object"),
      names |-> Words(Str("__delattr__ __init__ __setattr__ __str__"))],
     [t |-> "builtin_function_or_method", kind |-> "builtin_function_or_method", self |-> "obj", owner |-> Str(""),
      names |-> Words(Str("__dir__ __format__ __getstate__ __reduce__ __reduce_ex__ __sizeof__"))],
     [t |-> "builtin_function_or_method", kind |-> "builtin_function_or_method", self |-> "class", owner |-> Str(""),
      names |-> Words(Str("__init_subclass__ __subclasshook__"))],
     [t |-> "builtin_function_or_method", kind |-> "builtin_function_or_method", self |-> "object", owner |-> Str(""),
      names |-> Words(Str("__new__"))],
     [t |-> "method-wrapper", kind |-> "method-wrapper", self |-> "obj", owner |-> Str("method-wrapper"),
      names |-> Words(Str("__call__ __eq__ __ge__ __getattribute__ __gt__ __hash__ __le__ __lt__ "
                      \o "__ne__ __repr__"))],
     [t |-> "method-wrapper", kind |-> "method-wrapper", self |-> "obj", owner |-> Str("object"),
      names |-> Words(Str("__delattr__ __init__ __setattr__ __str__"))],
     [t |-> "method-wrapper", kind |-> "builtin_function_or_method", self |-> "obj", owner |-> Str(""),
      names |-> Words(Str("__dir__ __format__ __getstate__ __reduce__ __reduce_ex__ __sizeof__"))],
     [t |-> "method-wrapper", kind |-> "builtin_function_or_method", self |-> "class", owner |-> Str(""),
      names |-> Words(Str("__init_subclass__ __subclasshook__"))],
     [t |-> "method-wrapper", kind |-> "builtin_function_or_method", self |-> "object", owner |-> Str(""),
      names |-> Words(Str("__new__"))],
     [t |-> "method", kind |-> "method-wrapper", self |-> "obj", owner |-> Str("method"),
      names |-> Words(Str("__call__ __delattr__ __eq__ __ge__ __getattribute__ __gt__ __hash__ "
                      \o "__le__ __lt__ __ne__ __repr__ __setattr__"))],
     [t |-> "method", kind |-> "builtin_function_or_method", self |-> "obj", owner |-> Str(""),
      names |-> Words(Str("__dir__ __format__ __getstate__ __reduce__ __reduce_ex__ __sizeof__"))],
     [t |-> "method", kind |-> "method-wrapper", self |-> "obj", owner |-> Str("object"),
      names |-> Words(Str("__init__ __str__"))],
     [t |-> "method", kind |-> "builtin_function_or_method", self |-> "class", owner |-> Str(""),
      names |-> Words(Str("__init_subclass__ __new__ __subclasshook__"))]
    >>

\* __doc__ of the built-in types
Doc ==
    [
     int |->
        Str("int([x]) -> integer\n"
            \o "int(x, base=10) -> integer\n"
            \o "\n"
            \o "Convert a number or string to an integer, or return 0 if no arguments\n"
            \o "are given.  If x is a number, return x.__int__().  For floating point\n"
            \o "numbers, this truncates towards zero.\n"
            \o "\n"
            \o "If x is not a number or if base is given, then x must be a string,\n"
            \o "bytes, or bytearray instance representing an integer literal in the\n"
            \o "given base.  The literal can be preceded by '+' or '-' and be surrounded\n"
            \o "by whitespace.  The base defaults to 10.  Valid bases are 0 and 2-36.\n"
            \o "Base 0 means to interpret the base from the string as an integer literal.\n"
            \o ">>> int('0b100', base=0)\n"
            \o "4"),
     bool |->
        Str("bool(x) -> bool\n"
            \o "\n"
            \o "Returns True when the argument x is true, False otherwise.\n"
            \o "The builtins True and False are the only two instances of the class bool.\n"
            \o "The class bool is a subclass of the class int, and cannot be subclassed."),
     float |->
        Str("Convert a string or number to a floating point number, if possible."),
     str |->
        Str("str(object='') -> str\n"
            \o "str(bytes_or_buffer[, encoding[, errors]]) -> str\n"
            \o "\n"
            \o "Create a new string object from the given object. If encoding or\n"
            \o "errors is specified, then the object must expose a data buffer\n"
            \o "that will be decoded using the given encoding and error handler.\n"
            \o "Otherwise, returns the result of object.__str__() (if defined)\n"
            \o "or repr(object).\n"
            \o "encoding defaults to sys.getdefaultencoding().\n"
            \o "errors defaults to 'strict'."),
     dict |->
        Str("dict() -> new empty dictionary\n"
            \o "dict(mapping) -> new dictionary initialized from a mapping object's\n"
            \o "    (key, value) pairs\n"
            \o "dict(iterable) -> new dictionary initialized as if via:\n"
            \o "    d = {}\n"
            \o "    for k, v in iterable:\n"
            \o "        d[k] = v\n"
            \o "dict(**kwargs) -> new dictionary initialized with the name=value pairs\n"
            \o "    in the keyword argument list.  For example:  dict(one=1, two=2)"),
     list |->
        Str("Built-in mutable sequence.\n"
            \o "\n"
            \o "If no argument is given, the constructor creates a new empty list.\n"
            \o "The argument must be an iterable if specified.")]

\* The row of BuiltinMethods that gives obj the attribute name, a row of no
\* kind when none does; an object of a class written in Python has the methods
\* of object.
MethodRow(obj, name) ==
    Bind(BuiltinMethods, LAMBDA table :
    Bind({k \in 1..Len(table) :
            /\ table[k].t = (IF obj.t \in InstanceTypes THEN "object" ELSE obj.t)
            /\ \E j \in 1..Len(table[k].names) : table[k].names[j] = name}, LAMBDA rows :
        IF rows = {}
        THEN [t |-> "", kind |-> "", self |-> "", owner |-> <<>>, names |-> <<>>]
        ELSE table[CHOOSE k \in rows : TRUE]))

\* The functions FieldReference defines
FieldReferenceClass == Str("models.fields.FieldReference")

FieldReferenceFunction(name) ==
    PyFunction(ClassModule(FieldReferenceClass),
               ClassName(FieldReferenceClass) \o <<Char.dot>> \o name)

\* The attributes that are no methods of a built-in type: what the type's
\* descriptors and the class give.
DescriptorNames ==
    {"__class__", "__doc__", "__dict__", "__module__", "__weakref__", "__hash__",
     "__name__", "__qualname__", "__self__", "__func__", "__objclass__", "__call__",
     "__init__", "real", "imag", "numerator", "denominator", "__annotations__",
     "__closure__", "__defaults__", "__kwdefaults__", "__code__", "__globals__",
     "__builtins__", "__text_signature__"}

DescriptorText == [a \in DescriptorNames |-> Str(a)]

\* name as one of DescriptorNames, "" when it is none of them
Descriptor(name) ==
    Bind(DescriptorText, LAMBDA text :
        IF \E a \in DescriptorNames : text[a] = name
        THEN CHOOSE a \in DescriptorNames : text[a] = name
        ELSE "")

\* Those of them an object of type t has with a value written here
SpecialNames(t) ==
    {"__class__"}
    \cup CASE t \in {"int", "bool"} -> {"__doc__", "real", "imag", "numerator", "denominator"}
           [] t = "float" -> {"__doc__", "real", "imag"}
           [] t \in {"str", "NoneType"} -> {"__doc__"}
           [] t \in {"dict", "list"} -> {"__doc__", "__hash__"}
           [] t = "object" -> {"__doc__", "__dict__", "__module__", "__weakref__"}
           [] t = "FieldReference" ->
                {"__doc__", "__dict__", "__module__", "__weakref__", "__call__", "__init__"}
           [] t = "function" ->
                {"__doc__", "__dict__", "__module__", "__name__", "__qualname__",
                 "__annotations__", "__closure__", "__defaults__", "__kwdefaults__"}
           [] t = "builtin_function_or_method" ->
                {"__self__", "__name__", "__qualname__", "__module__"}
           [] t = "method-wrapper" -> {"__self__", "__name__", "__qualname__", "__objclass__"}
           [] t = "method" -> {"__self__", "__func__", "__doc__"}
           [] t = "type" -> {"__name__", "__qualname__", "__module__"}
           [] OTHER -> {}

\* The attributes obj has with a value that is not written here: the code and
\* the namespaces of a function, the documentation of a built-in method, what
\* a field has beyond SpecialNames, and what a class has beyond them.  A class
\* has what type gives every class (dir(type), where __abstractmethods__
\* raises AttributeError, and __annotations__ too unless the class is written
\* in Python) and what it gives its instances; a class that is not written in
\* Python has no __weakref__, and the class of bound methods has not what a
\* method reads from its function.  The attributes of a class of django or
\* jsonschema, and of JSONSchemaField that inherits from one, are not listed.
Unwritten(obj, name, special) ==
    CASE obj.t = "function" -> special \in {"__code__", "__globals__", "__builtins__"}
      [] obj.t \in {"builtin_function_or_method", "method-wrapper"} ->
            special \in {"__doc__", "__text_signature__"}
      [] obj.t = "JSONSchemaField" -> special \notin SpecialNames(obj.t)
      [] obj.t = "type" ->
            LET given ==
                    Words(Str("__base__ __bases__ __basicsize__ __call__ __class__ __delattr__ "
                          \o "__dict__ __dictoffset__ __dir__ __doc__ __eq__ __flags__ "
                          \o "__format__ __ge__ __getattribute__ __getstate__ __gt__ __hash__ "
                          \o "__init__ __init_subclass__ __instancecheck__ __itemsize__ __le__ "
                          \o "__lt__ __module__ __mro__ __name__ __ne__ __new__ __or__ "
                          \o "__prepare__ __qualname__ __reduce__ __reduce_ex__ __repr__ "
                          \o "__ror__ __setattr__ __sizeof__ __str__ __subclasscheck__ "
                          \o "__subclasses__ __subclasshook__ __text_signature__ "
                          \o "__weakrefoffset__ mro"))
                body ==
                    CASE obj = JSONDecoder -> Words(Str("decode raw_decode"))
                      [] obj = PyClass(Str("json.encoder.JSONEncoder")) ->
                            Words(Str("default encode iterencode item_separator key_separator"))
                      [] OTHER -> <<>>
                pieces == Split(obj.s, Char.dot)
                written == Len(pieces) > 1
                library ==
                    \/ pieces[1] \in {Str("django"), Str("jsonschema")}
                    \/ obj.s = Str("models.fields.JSONSchemaField")
                t == IF \E k \in DOMAIN TypeNames : TypeNames[k] = obj.s
                     THEN CHOOSE k \in DOMAIN TypeNames : TypeNames[k] = obj.s
                     ELSE "object"
                Among(names) == \E k \in 1..Len(names) : names[k] = name
            IN  /\ special \notin SpecialNames(obj.t)
                /\ \/ library
                   \/ CASE name = Str("__abstractmethods__") -> FALSE
                        [] name = Str("__annotations__") -> written
                        [] Among(given) -> TRUE
                        [] OTHER ->
                              /\ t # "type"
                              /\ \/ special \in SpecialNames(t)
                                                  \ (IF written THEN {} ELSE {"__weakref__"})
                                 \/ t = "function"
                                      /\ special \in {"__code__", "__globals__", "__builtins__"}
                                 \/ MethodRow([t |-> t], name).kind # ""
                                 \/ Among(body)
      [] OTHER -> FALSE

\* The value of the attribute special \in SpecialNames(obj.t)
SpecialAttr(obj, special) ==
    CASE special = "__class__" -> TypeOf(obj)
      [] special = "__doc__" ->
            CASE obj.t = "int" -> PyStr(Doc.int)
              [] obj.t = "bool" -> PyStr(Doc.bool)
              [] obj.t = "float" -> PyStr(Doc.float)
              [] obj.t = "str" -> PyStr(Doc.str)
              [] obj.t = "dict" -> PyStr(Doc.dict)
              [] obj.t = "list" -> PyStr(Doc.list)
              [] OTHER -> PyNone
      [] special \in {"real", "numerator"} -> IF obj.t = "bool" THEN PyInt(obj.i) ELSE obj
      [] special = "imag" -> IF obj.t = "float" THEN PyFloat(FloatText.zero) ELSE PyInt(0)
      [] special = "denominator" -> PyInt(1)
      [] special \in {"__hash__", "__weakref__", "__closure__", "__defaults__",
                      "__kwdefaults__"} -> PyNone
      [] special = "__annotations__" -> PyDict(<<>>)
      [] special = "__dict__" -> IF obj.t = "function" THEN PyDict(<<>>) ELSE PyDict(obj.d)
      [] special = "__module__" ->
            CASE obj.t = "function" -> GetKey(obj, Slot.module)
              [] obj.t = "builtin_function_or_method" -> PyNone
              [] obj.t = "type" -> PyStr(ClassModule(obj.s))
              [] OTHER -> PyStr(ClassModule(TypeOf(obj).s))
      [] special = "__name__" -> PyStr(ClassName(obj.s))
      [] special = "__qualname__" ->
            CASE obj.t = "builtin_function_or_method" ->
                    Bind(GetKey(obj, Slot.self), LAMBDA self :
                        PyStr((IF self.t = "type" THEN ClassName(self.s) ELSE ClassName(TypeOf(self).s))
                              \o <<Char.dot>> \o obj.s))
              [] obj.t = "method-wrapper" ->
                    PyStr(GetKey(obj, Slot.objclass).s \o <<Char.dot>> \o obj.s)
              [] obj.t = "type" -> PyStr(ClassName(obj.s))
              [] OTHER -> PyStr(obj.s)
      [] special = "__self__" -> IF obj.i = 1 THEN PyNone ELSE GetKey(obj, Slot.self)
      [] special = "__func__" -> GetKey(obj, Slot.func)
      [] special = "__objclass__" -> GetKey(obj, Slot.objclass)
      [] special \in {"__call__", "__init__"} ->
            BoundMethod(FieldReferenceFunction(DescriptorText[special]), obj)

\* The attribute the type of obj gives under name: a value of SpecialNames,
\* a method of BuiltinMethods, for a bound method what its function has, or
\* AttributeError.
RECURSIVE GetAttr(_, _)
TypeAttr(obj, name, special, row) ==
    CASE special \in SpecialNames(obj.t) ->
            [exc |-> NoExc, ret |-> SpecialAttr(obj, special)]
      [] special \notin SpecialNames(obj.t) /\ ~Unwritten(obj, name, special) ->
            CASE row.kind = "method-wrapper" ->
                    [exc |-> NoExc, ret |-> MethodWrapper(name, obj, row.owner)]
              [] row.kind = "builtin_function_or_method" ->
                    [exc |-> NoExc, ret |-> BuiltinMethod(name, obj, row.self)]
              [] row.kind = "" /\ obj.t = "method" -> GetAttr(GetKey(obj, Slot.func), name)
              [] row.kind = "" /\ obj.t # "method" ->
                    [exc |-> Exc("AttributeError", "", <<>>), ret |-> PyNone]

\* getattr(obj, name) with no default: the attribute, or AttributeError.  The
\* data descriptors of the class (__class__, __dict__, __weakref__) go before
\* the instance's __dict__, and that before what else the type gives.
GetAttr(obj, name) ==
    Bind(Descriptor(name), LAMBDA special :
        IF /\ obj.t \in InstanceTypes
           /\ special \notin {"__class__", "__dict__", "__weakref__"}
           /\ HasKey(obj, name)
        THEN [exc |-> NoExc, ret |-> GetKey(obj, name)]
        ELSE TypeAttr(obj, name, special, MethodRow(obj, name)))

\* bool(v): None, False, zero and the empty str, dict and list are false.
Truth(v) ==
    CASE v.t = "NoneType" -> FALSE
      [] v.t = "bool" -> v.i = 1
      [] v.t = "int" -> v.s # <<Char.zero>>
      [] v.t = "float" -> v.s \notin {FloatText.zero, <<Char.minus>> \o FloatText.zero}
      [] v.t = "str" -> v.s # <<>>
      [] v.t \in {"dict", "list"} -> v.d # <<>>
      [] OTHER -> TRUE

\* callable(v)
Callable(v) ==
    v.t \in {"function", "type", "builtin_function_or_method", "method-wrapper", "method",
             "FieldReference"}

\* The texts repr writes around what it shows.
ReprText ==
    [None |-> Str("None"), True |-> Str("True"), False |-> Str("False"),
     commaSpace |-> Str(", "), colonSpace |-> Str(": "),
     class |-> Str("<class '"), classEnd |-> Str("'>"),
     function |-> Str("<function "), at |-> Str(" at 0x...>"),
     builtinMethod |-> Str("<built-in method "), of |-> Str(" of "),
     methodWrapper |-> Str("<method-wrapper '"), quoteOf |-> Str("' of "),
     boundMethod |-> Str("<bound method "),
     open |-> Str("<"), close |-> Str(">"), objectAt |-> Str(" object at 0x...>"),
     hex |-> Str("0123456789abcdef")]

\* c.isprintable()
Printable(c) ==
    IF c < 127 THEN c >= 32
    ELSE ~\E k \in 1..Len(NonPrintable) : NonPrintable[k][1] <= c /\ c <= NonPrintable[k][2]

\* '%0*x' % (width, n)
HexText(n, width) == [k \in 1..width |-> ReprText.hex[((n \div (16 ^ (width - k))) % 16) + 1]]

\* The text repr(str) writes for the character c between quotes of kind quote.
ReprChar(c, quote) ==
    IF c = quote \/ c = Char.backslash THEN <<Char.backslash, c>>
    ELSE IF c = Char.tab THEN <<Char.backslash, Char.t>>
    ELSE IF c = Char.newline THEN <<Char.backslash, Char.n>>
    ELSE IF c = Char.return THEN <<Char.backslash, Char.r>>
    ELSE IF Printable(c) THEN <<c>>
    ELSE IF c < 256 THEN <<Char.backslash, Char.x>> \o HexText(c, 2)
    ELSE IF c < 65536 THEN <<Char.backslash, Char.u>> \o HexText(c, 4)
    ELSE <<Char.backslash, Char.U>> \o HexText(c, 8)

\* repr of a str: in double quotes when it holds ' and no ", else in single
ReprStr(s) ==
    LET quote == IF (\E k \in 1..Len(s) : s[k] = Char.apostrophe)
                    /\ ~\E k \in 1..Len(s) : s[k] = Char.quote
                 THEN Char.quote ELSE Char.apostrophe
    IN  <<quote>> \o Join([k \in 1..Len(s) |-> ReprChar(s[k], quote)], 1, Len(s)) \o <<quote>>

\* repr(v)
RECURSIVE Repr(_)
Repr(v) ==
    CASE v.t \in {"int", "float"} -> v.s
      [] v.t = "str" -> ReprStr(v.s)
      [] v.t = "NoneType" -> ReprText.None
      [] v.t = "bool" -> IF v.i = 1 THEN ReprText.True ELSE ReprText.False
      [] v.t = "dict" ->
            <<Char.lbrace>>
            \o Join([k \in 1..Len(v.d) |->
                        (IF k > 1 THEN ReprText.commaSpace ELSE <<>>)
                        \o ReprStr(v.d[k][1]) \o ReprText.colonSpace \o Repr(v.d[k][2])],
                    1, Len(v.d))
            \o <<Char.rbrace>>
      [] v.t = "list" ->
            <<Char.lbracket>>
            \o Join([k \in 1..Len(v.d) |->
                        (IF k > 1 THEN ReprText.commaSpace ELSE <<>>) \o Repr(v.d[k][2])],
                    1, Len(v.d))
            \o <<Char.rbracket>>
      [] v.t = "type" -> ReprText.class \o v.s \o ReprText.classEnd
      [] v.t = "function" -> ReprText.function \o v.s \o ReprText.at
      [] v.t = "builtin_function_or_method" ->
            ReprText.builtinMethod \o v.s \o ReprText.of
            \o ClassName(TypeOf(GetKey(v, Slot.self)).s) \o ReprText.objectAt
      [] v.t = "method-wrapper" ->
            ReprText.methodWrapper \o v.s \o ReprText.quoteOf
            \o ClassName(TypeOf(GetKey(v, Slot.self)).s) \o ReprText.objectAt
      [] v.t = "method" ->
            ReprText.boundMethod \o v.s \o ReprText.of
            \o Repr(GetKey(v, Slot.self)) \o ReprText.close
      [] v.t = "JSONSchemaField" -> ReprText.open \o v.s \o ReprText.close
      [] v.t \in {"object", "FieldReference"} -> ReprText.open \o v.s \o ReprText.objectAt

(***************************************************************************)
(* FieldReference                                                          *)
(***************************************************************************)
\* The attributes of the field and of a FieldReference, and the keywords
\* deconstruct writes
FieldAttr ==
    [source |-> Str("source"), schema |-> Str("_schema"), kwarg |-> Str("_schema_kwarg"),
     checker |-> Str("format_checker"), encoder |-> Str("encoder"),
     schemaKeyword |-> Str("schema")]

\* FieldReference(source) keeping the string whole: self.source = [source]
FieldReference__init__unsplit(source) ==
    PyVal("FieldReference", 0, FieldReferenceClass,
          << <<FieldAttr.source, PyList(<<source>>)>> >>)

\* FieldReference(source): self.source = source.split('.')
FieldReference__init__(source) ==
    Bind(Split(source.s, Char.dot), LAMBDA pieces :
        PyVal("FieldReference", 0, FieldReferenceClass,
              << <<FieldAttr.source, PyList([k \in 1..Len(pieces) |-> PyStr(pieces[k])])>> >>))

\* The loop of __call__ from its k-th attribute on, obj being the object reached.
RECURSIVE FieldReferenceLoop(_, _, _)
FieldReferenceLoop(source, k, obj) ==
    IF k > Len(source.d) THEN [exc |-> NoExc, ret |-> obj]
    ELSE Bind(GetAttr(obj, source.d[k][2].s), LAMBDA got :
            IF Raised(got.exc) THEN got
            ELSE FieldReferenceLoop(source, k + 1, got.ret))

\* FieldReference.__call__(instance)
FieldReference__call__(self, instance) ==
    FieldReferenceLoop(GetKey(self, FieldAttr.source), 1, instance)

(***************************************************************************)
(* The functions an application gives as schema, each taking the model     *)
(* instance:                                                               *)
(*   def constant_schema(instance): return {"type": "string"}              *)
(*   def instance_schema(instance): return instance.model_field            *)
(*   def raising(instance): return {}["schema"]                            *)
(***************************************************************************)
Name ==
    [module |-> Str("app.schemas"), constant_schema |-> Str("constant_schema"),
     instance_schema |-> Str("instance_schema"), raising |-> Str("raising"),
     model_field |-> Str("model_field"), a |-> Str("a"), b |-> Str("b"),
     real |-> Str("real"), instance |-> Str("app.models.Instance"),
     related |-> Str("app.models.Related")]

\* The keywords of JSON Schema the engine is followed through, and the types
\* "type" names
Keyword ==
    [schema |-> Str("$schema"), ref |-> Str("$ref"), type |-> Str("type"),
     title |-> Str("title"), default |-> Str("default")]

JsonType ==
    [array |-> Str("array"), boolean |-> Str("boolean"), integer |-> Str("integer"),
     null |-> Str("null"), number |-> Str("number"), object |-> Str("object"),
     string |-> Str("string")]

ApplyFunction(f, instance) ==
    CASE f.s = Name.constant_schema ->
            [exc |-> NoExc, ret |-> PyDict(<< <<Keyword.type, PyStr(JsonType.string)>> >>)]
      [] f.s = Name.instance_schema -> GetAttr(instance, Name.model_field)
      [] f.s = Name.raising -> [exc |-> Exc("KeyError", "", <<>>), ret |-> PyNone]

\* A call the field makes: the callable and its arguments.
CallOf(fn, args) == [fn |-> fn, args |-> args]

\* schema(model_instance) for a callable schema: a FieldReference or one of
\* the functions
CallSchema(schema, instance) ==
    CASE schema.t = "FieldReference" -> FieldReference__call__(schema, instance)
      [] schema.t = "function" -> ApplyFunction(schema, instance)

(***************************************************************************)
(* jsonschema.validate(instance, schema, cls), the engine fields.py:111    *)
(* calls:                                                                  *)
(*     if cls is None: cls = validator_for(schema)                         *)
(*     cls.check_schema(schema)          raises SchemaError                *)
(*     error = best_match(cls(schema).iter_errors(instance))               *)
(*     if error is not None: raise error raises ValidationError            *)
(* The engine is followed through the keywords type, $ref and $schema of   *)
(* draft 6 and later; the schemas here use no other keyword that           *)
(* constrains a value, and reference only their own document.              *)
(***************************************************************************)
SchemaError == "jsonschema.exceptions.SchemaError"

EngineValidationError == "jsonschema.exceptions.ValidationError"

RefResolutionError == "jsonschema.exceptions.RefResolutionError"

Draft7Validator == PyClass(Str("jsonschema.validators.Draft7Validator"))

\* The validator class of the latest draft the installed engine supports.
LatestValidator == PyClass(Str("jsonschema.validators._LATEST_VERSION"))

\* The texts of the engine: the id of draft 7, with and without its empty
\* fragment, and the messages
EngineText ==
    [draft7 |-> Str("http://json-schema.org/draft-07/schema"),
     draft7Fragment |-> Str("http://json-schema.org/draft-07/schema#"),
     pointer |-> Str("#/"),
     notOfType |-> Str(" is not of type "),
     objectBoolean |-> Str("'object', 'boolean'"),
     string |-> Str("'string'"),
     anyOf |-> Str(" is not valid under any of the given schemas"),
     falseSchema |-> Str("False schema does not allow ")]

\* validator_for(schema):
\*     if schema is True or schema is False or "$schema" not in schema: return default
\*     return META_SCHEMAS.get(schema["$schema"], default)
\* The `in` test raises TypeError on a schema that is no container (None, an
\* int), schema["$schema"] on a str or list that holds "$schema", and the
\* lookup on an unhashable "$schema".
ValidatorFor(schema) ==
    LET default   == [exc |-> NoExc, ret |-> LatestValidator]
        typeError == [exc |-> Exc("TypeError", "", <<>>), ret |-> PyNone]
    IN  CASE schema.t = "bool" -> default
          [] schema.t = "dict" /\ ~HasKey(schema, Keyword.schema) -> default
          [] schema.t = "dict" /\ HasKey(schema, Keyword.schema) ->
                Bind(GetKey(schema, Keyword.schema), LAMBDA id :
                    CASE id.t \in {"dict", "list"} -> typeError
                      [] id.t = "str" /\ id.s \in {EngineText.draft7, EngineText.draft7Fragment} ->
                            [exc |-> NoExc, ret |-> Draft7Validator]
                      [] OTHER -> default)
          [] schema.t = "str" ->
                IF Contains(schema.s, Keyword.schema) THEN typeError ELSE default
          [] schema.t = "list" ->
                IF \E k \in 1..Len(schema.d) : schema.d[k][2] = PyStr(Keyword.schema)
                THEN typeError ELSE default
          [] OTHER -> typeError

SimpleTypes ==
    {JsonType.array, JsonType.boolean, JsonType.integer, JsonType.null, JsonType.number,
     JsonType.object, JsonType.string}

\* The metaschema's "type": a simple type, or an array of distinct simple types.
TypeKeywordValid(v) ==
    \/ v.t = "str" /\ v.s \in SimpleTypes
    \/ /\ v.t = "list"
       /\ Len(v.d) >= 1
       /\ \A k \in 1..Len(v.d) : v.d[k][2].t = "str" /\ v.d[k][2].s \in SimpleTypes
       /\ \A j, k \in 1..Len(v.d) : j # k => v.d[j][2] # v.d[k][2]

\* cls.check_schema(schema): the message of the SchemaError, <<>> for a valid
\* schema.  The metaschema's own "type" is looked at first and then its
\* properties in their order: $schema, $ref, type.
CheckSchema(schema) ==
    IF schema.t = "bool" THEN <<>>
    ELSE IF schema.t # "dict"
    THEN Repr(schema) \o EngineText.notOfType \o EngineText.objectBoolean
    ELSE IF HasKey(schema, Keyword.schema) /\ GetKey(schema, Keyword.schema).t # "str"
    THEN Repr(GetKey(schema, Keyword.schema)) \o EngineText.notOfType \o EngineText.string
    ELSE IF HasKey(schema, Keyword.ref) /\ GetKey(schema, Keyword.ref).t # "str"
    THEN Repr(GetKey(schema, Keyword.ref)) \o EngineText.notOfType \o EngineText.string
    ELSE IF HasKey(schema, Keyword.type) /\ ~TypeKeywordValid(GetKey(schema, Keyword.type))
    THEN Repr(GetKey(schema, Keyword.type)) \o EngineText.anyOf
    ELSE <<>>

\* float.is_integer() of a float, from its repr: a float written with .0 or
\* with a positive exponent is a whole number.
IsInteger(text) ==
    \/ /\ Len(text) > 2
       /\ SubSeq(text, Len(text) - 1, Len(text)) = <<Char.dot, Char.zero>>
    \/ \E k \in 1..(Len(text) - 1) : text[k] = Char.e /\ text[k + 1] = Char.plus

\* The type checker's is_type(instance, type): a bool is no number, a float
\* that is a whole number is an integer.
IsType(instance, type) ==
    CASE type = JsonType.integer ->
            instance.t = "int" \/ (instance.t = "float" /\ IsInteger(instance.s))
      [] type = JsonType.number -> instance.t \in {"int", "float"}
      [] type = JsonType.string -> instance.t = "str"
      [] type = JsonType.null -> instance.t = "NoneType"
      [] type = JsonType.boolean -> instance.t = "bool"
      [] type = JsonType.object -> instance.t = "dict"
      [] type = JsonType.array -> instance.t = "list"
      [] OTHER -> FALSE

\* The types a valid "type" keyword names, in order.
TypesOf(v) == IF v.t = "str" THEN <<v.s>> ELSE [k \in 1..Len(v.d) |-> v.d[k][2].s]

\* ", ".join(repr(type) for type in types)
JoinReprs(types) ==
    Join([k \in 1..Len(types) |->
            (IF k > 1 THEN ReprText.commaSpace ELSE <<>>) \o ReprStr(types[k])],
         1, Len(types))

\* The document a JSON pointer's parts lead to from doc, k being the next part.
RECURSIVE ResolvePointer(_, _, _)
ResolvePointer(doc, parts, k) ==
    IF k > Len(parts) THEN [exc |-> NoExc, ret |-> doc]
    ELSE IF doc.t = "dict" /\ HasKey(doc, parts[k])
    THEN ResolvePointer(GetKey(doc, parts[k]), parts, k + 1)
    ELSE [exc |-> Exc(RefResolutionError, "", <<>>), ret |-> PyNone]

\* resolver.resolve(ref) within the root schema: "#/a/b" is a pointer into it.
ResolveRef(root, ref) ==
    IF Slice(ref, 1, 2) = EngineText.pointer
    THEN ResolvePointer(root, Split(SubSeq(ref, 3, Len(ref)), Char.slash), 1)
    ELSE [exc |-> Exc(RefResolutionError, "", <<>>), ret |-> PyNone]

\* best_match(cls(root).iter_errors(instance)) for a checked schema: the error
\* raised, NoExc when the instance conforms. A $ref is followed in place of
\* the keywords beside it.
RECURSIVE IterErrors(_, _, _)
IterErrors(instance, schema, root) ==
    IF schema.t = "bool"
    THEN (IF schema.i = 1 THEN NoExc
          ELSE Exc(EngineValidationError, "", EngineText.falseSchema \o Repr(instance)))
    ELSE IF HasKey(schema, Keyword.ref)
    THEN Bind(ResolveRef(root, GetKey(schema, Keyword.ref).s), LAMBDA target :
            IF Raised(target.exc) THEN target.exc
            ELSE IterErrors(instance, target.ret, root))
    ELSE IF HasKey(schema, Keyword.type)
    THEN Bind(TypesOf(GetKey(schema, Keyword.type)), LAMBDA types :
            IF \E k \in 1..Len(types) : IsType(instance, types[k]) THEN NoExc
            ELSE Exc(EngineValidationError, "",
                     Repr(instance) \o EngineText.notOfType \o JoinReprs(types)))
    ELSE NoExc

\* jsonschema.validate(instance, schema, cls=cls), cls being None or a
\* validator class: the exception it raises.
JsonschemaValidate(instance, schema, cls) ==
    Bind(IF cls = PyNone THEN ValidatorFor(schema) ELSE [exc |-> NoExc, ret |-> cls],
         LAMBDA chosen :
    IF Raised(chosen.exc) THEN chosen.exc
    ELSE Bind(CheckSchema(schema), LAMBDA message :
            IF message # <<>> THEN Exc(SchemaError, "", message)
            ELSE IterErrors(instance, schema, schema)))

(***************************************************************************)
(* django 3.2, the host framework:                                         *)
(* django.contrib.postgres.fields.JSONField                                *)
(***************************************************************************)
HostValidationError == "django.core.exceptions.ValidationError"

\* ValidationError(message, code=code)
ValidationError(message, code) == Exc(HostValidationError, code, message)

\* The texts of django's messages and of deconstruct
DjangoText ==
    [null |-> Str("This field cannot be null."),
     blank |-> Str("This field cannot be blank."),
     invalid |-> Str("Value must be valid JSON."),
     class |-> Str("models.fields.JSONSchemaField")]

\* Whether json.dumps writes the value: None, numbers, strs, and the dicts
\* and lists of them.
RECURSIVE Serialisable(_)
Serialisable(value) ==
    \/ value.t \in {"NoneType", "bool", "int", "float", "str"}
    \/ /\ value.t \in {"dict", "list"}
       /\ \A k \in 1..Len(value.d) : Serialisable(value.d[k][2])

\* json.dumps(value, cls=encoder) raises TypeError: for a value no encoder
\* writes, and for an encoder that is not called as an encoder class is: 0 is
\* not callable, and a function and JSONDecoder take no skipkeys.
DumpsTypeError(value, encoder) ==
    CASE encoder = PyNone \/ encoder \in EncoderClasses -> ~Serialisable(value)
      [] encoder # PyNone /\ ~Callable(encoder) -> TRUE
      [] encoder.t = "function" \/ encoder = JSONDecoder -> TRUE

\* JSONField.validate(value, model_instance) of a field declared with the
\* default null=False and blank=False: None is refused with code null, an
\* empty value with code blank, and a value json.dumps raises TypeError on
\* with code invalid.
SuperValidate(self, value) ==
    IF value = PyNone THEN ValidationError(DjangoText.null, "null")
    ELSE IF value \in {PyStr(<<>>), PyDict(<<>>), PyList(<<>>)}
    THEN ValidationError(DjangoText.blank, "blank")
    ELSE IF DumpsTypeError(value, GetKey(self, FieldAttr.encoder))
    THEN ValidationError(DjangoText.invalid, "invalid")
    ELSE NoExc

\* JSONField.deconstruct() of a field not yet bound to a model: no name, the
\* import path of the class, no positional argument, and the encoder as a
\* keyword when it is not None.
SuperDeconstruct(self) ==
    [name   |-> PyNone,
     path   |-> PyStr(DjangoText.class),
     args   |-> PyList(<<>>),
     kwargs |-> IF GetKey(self, FieldAttr.encoder) = PyNone THEN PyDict(<<>>)
                ELSE PyDict(<< <<FieldAttr.encoder, GetKey(self, FieldAttr.encoder)>> >>)]

(***************************************************************************)
(* JSONSchemaField                                                         *)
(***************************************************************************)
\* What a method call gives: the exception raised (NoExc for a return), the
\* value returned, the field, model instance and value as the call leaves
\* them, and the calls made to the schema callable and to the engine.
Result(exc, ret, self, model_instance, value, calls) ==
    [exc |-> exc, ret |-> ret, self |-> self,
     model_instance |-> model_instance, value |-> value, calls |-> calls]

\* Lines 92-96 of __init__, run in a frame that may nest remaining calls more
\* before the interpreter's recursion limit: the string is loaded as JSON,
\* with the field's encoder as cls when the encoder is true, or on
\* JSONDecodeError becomes a FieldReference; any other exception of json.loads,
\* RecursionError among them, is not caught.
ParseSchemaString(schema, encoder, remaining) ==
    Bind(JsonLoads(schema.s, IF Truth(encoder) THEN encoder ELSE PyNone, remaining),
         LAMBDA loaded :
        IF loaded.exc.type = "JSONDecodeError"
        THEN [exc |-> NoExc, ret |-> FieldReference__init__(schema)]
        ELSE loaded)

\* Lines 88-96 of __init__ without "if schema is None: schema = {}"
ParseSchemaArgumentNoneKept(schema, encoder, remaining) ==
    IF schema.t = "str" THEN ParseSchemaString(schema, encoder, remaining)
    ELSE [exc |-> NoExc, ret |-> schema]

\* Lines 88-96 of __init__: None becomes {}, a string is parsed, anything
\* else is kept.
ParseSchemaArgument(schema, encoder, remaining) ==
    CASE schema = PyNone -> [exc |-> NoExc, ret |-> PyDict(<<>>)]
      [] schema.t = "str" -> ParseSchemaString(schema, encoder, remaining)
      [] OTHER -> [exc |-> NoExc, ret |-> schema]

\* JSONSchemaField(schema, format_checker, encoder=encoder), called where the
\* frame of __init__ may nest remaining calls more before the interpreter's
\* recursion limit (enough of them for JSONField's __init__).  JSONField's
\* __init__ refuses an encoder that is true and not callable with ValueError,
\* before it sets anything.
JSONSchemaField__init__(schema, format_checker, encoder, remaining) ==
    LET new  == PyVal("JSONSchemaField", 0, DjangoText.class, <<>>)
        kept == SetKey(SetKey(new, FieldAttr.encoder, encoder), FieldAttr.kwarg, schema)
    IN  IF Truth(encoder) /\ ~Callable(encoder)
        THEN [exc |-> Exc("ValueError", "", <<>>), self |-> new]
        ELSE Bind(ParseSchemaArgument(schema, encoder, remaining), LAMBDA parsed :
                IF Raised(parsed.exc)
                THEN [exc |-> parsed.exc, self |-> kept]
                ELSE [exc |-> NoExc,
                      self |-> SetKey(SetKey(kept, FieldAttr.checker, format_checker),
                                      FieldAttr.schema, parsed.ret)])

\* get_schema without the call: the stored schema is returned as it is
get_schema_uncalled(self, model_instance) ==
    Result(NoExc, GetKey(self, FieldAttr.schema), self, model_instance, PyNone, <<>>)

\* get_schema falling back to the empty schema when the callable raises
get_schema_default_on_error(self, model_instance) ==
    Bind(GetKey(self, FieldAttr.schema), LAMBDA schema :
        IF Callable(schema)
        THEN Bind(CallSchema(schema, model_instance), LAMBDA called :
                Result(NoExc, IF Raised(called.exc) THEN PyDict(<<>>) ELSE called.ret,
                       self, model_instance, PyNone,
                       <<CallOf(schema, <<model_instance>>)>>))
        ELSE Result(NoExc, schema, self, model_instance, PyNone, <<>>))

\* get_schema keeping what it resolved: self._schema = schema(model_instance)
get_schema_memoised(self, model_instance) ==
    Bind(GetKey(self, FieldAttr.schema), LAMBDA schema :
        IF Callable(schema)
        THEN Bind(CallSchema(schema, model_instance), LAMBDA called :
                Result(called.exc, called.ret,
                       IF Raised(called.exc) THEN self
                       ELSE SetKey(self, FieldAttr.schema, called.ret),
                       model_instance, PyNone, <<CallOf(schema, <<model_instance>>)>>))
        ELSE Result(NoExc, schema, self, model_instance, PyNone, <<>>))

\* get_schema(model_instance)
get_schema(self, model_instance) ==
    Bind(GetKey(self, FieldAttr.schema), LAMBDA schema :
        IF Callable(schema)
        THEN Bind(CallSchema(schema, model_instance), LAMBDA called :
                Result(called.exc, called.ret, self, model_instance, PyNone,
                       <<CallOf(schema, <<model_instance>>)>>))
        ELSE Result(NoExc, schema, self, model_instance, PyNone, <<>>))

JsonschemaValidateFunction == PyFunction(Str("jsonschema.validators"), Str("validate"))

\* Lines 110-115 of validate_against_schema: the engine call and the two
\* except clauses.
validate_against_resolved(self, value, schema) ==
    Bind(JsonschemaValidate(value, schema, GetKey(self, FieldAttr.checker)), LAMBDA raised :
        CASE raised.type = EngineValidationError ->
                ValidationError(raised.message, "invalid_data")
          [] raised.type = SchemaError ->
                ValidationError(raised.message, "invalid_schema_definition")
          [] OTHER -> raised)

\* The engine call of validate_against_schema, as the field makes it
EngineCall(self, value, schema) ==
    CallOf(JsonschemaValidateFunction, <<value, schema, GetKey(self, FieldAttr.checker)>>)

\* validate_against_schema keeping the schema it resolved on the field
validate_against_schema_keeping(self, value, model_instance) ==
    Bind(get_schema(self, model_instance), LAMBDA got :
        IF Raised(got.exc)
        THEN Result(got.exc, PyNone, got.self, got.model_instance, value, got.calls)
        ELSE Result(validate_against_resolved(got.self, value, got.ret), PyNone,
                    SetKey(got.self, FieldAttr.schema, got.ret), got.model_instance, value,
                    got.calls \o <<EngineCall(got.self, value, got.ret)>>))

\* validate_against_schema(value, model_instance)
validate_against_schema(self, value, model_instance) ==
    Bind(get_schema(self, model_instance), LAMBDA got :
        IF Raised(got.exc)
        THEN Result(got.exc, PyNone, got.self, got.model_instance, value, got.calls)
        ELSE Result(validate_against_resolved(got.self, value, got.ret), PyNone,
                    got.self, got.model_instance, value,
                    got.calls \o <<EngineCall(got.self, value, got.ret)>>))

\* validate(value, model_instance)
validate(self, value, model_instance) ==
    Bind(SuperValidate(self, value), LAMBDA refused :
        IF Raised(refused)
        THEN Result(refused, PyNone, self, model_instance, value, <<>>)
        ELSE validate_against_schema(self, value, model_instance))

\* deconstruct returning the stored schema in place of the one given
deconstruct_stored(self) ==
    Result(NoExc,
           SetKey(SetKey(SuperDeconstruct(self).kwargs, FieldAttr.schemaKeyword,
                         GetKey(self, FieldAttr.schema)),
                  FieldAttr.checker, GetKey(self, FieldAttr.checker)),
           self, PyNone, PyNone, <<>>)

\* deconstruct(): ret is the kwargs of the returned (name, path, args, kwargs)
deconstruct(self) ==
    Result(NoExc,
           SetKey(SetKey(SuperDeconstruct(self).kwargs, FieldAttr.schemaKeyword,
                         GetKey(self, FieldAttr.kwarg)),
                  FieldAttr.checker, GetKey(self, FieldAttr.checker)),
           self, PyNone, PyNone, <<>>)

\* JSONSchemaField(*args, **kwargs) from what deconstruct returned, called
\* where __init__ may nest remaining calls more
Reconstructed(kwargs, remaining) ==
    JSONSchemaField__init__(
        GetKey(kwargs, FieldAttr.schemaKeyword), GetKey(kwargs, FieldAttr.checker),
        IF HasKey(kwargs, FieldAttr.encoder) THEN GetKey(kwargs, FieldAttr.encoder)
        ELSE PyNone,
        remaining)

(***************************************************************************)
(* The declarations, instances and values the field is exercised with      *)
(***************************************************************************)
IntegerSchema == PyDict(<< <<Keyword.type, PyStr(JsonType.integer)>> >>)

StringSchema == PyDict(<< <<Keyword.type, PyStr(JsonType.string)>> >>)

\* "type" must name a type: not a valid JSON Schema document
MalformedSchema == PyDict(<< <<Keyword.type, PyInt(123)>> >>)

\* a valid document whose reference leads nowhere
DanglingRefSchema == PyDict(<< <<Keyword.ref, PyStr(Str("#/definitions/missing"))>> >>)

LiteralSchemas == {IntegerSchema, MalformedSchema, DanglingRefSchema}

\* The string of the class docstring's usage example, fields.py:48-56.
DocstringExample ==
    PyStr(Str("{\n"
              \o "                \"$schema\": \"http://json-schema.org/draft-07/schema#\",\n"
              \o "                \"type\": \"object\",\n"
              \o "                \"properties\": {\n"
              \o "                    \"id\": {\"type\": \"integer\"},\n"
              \o "                    \"a_not_required_field\": {\"type\": \"string\"},\n"
              \o "                },\n"
              \o "                \"required\": [\"id\", \"a_not_required_field\"]\n"
              \o "            }"))

\* JSON text with an escape, a number written with a fraction and arrays
\* nested in the object
AnnotatedText ==
    PyStr(Str("{\"type\": \"integer\", \"title\": \"\\\\d+\", \"default\": [[1.50]]}"))

AnnotatedSchema ==
    PyDict(<< <<Keyword.type, PyStr(JsonType.integer)>>,
              <<Keyword.title, PyStr(<<Char.backslash>> \o Str("d+"))>>,
              <<Keyword.default, PyList(<<PyList(<<PyFloat(Str("1.5"))>>)>>)>> >>)

\* The strings given as schema that are no dotted paths: JSON texts, one that
\* starts with the byte order mark, and the docstring's example
JsonTextSchemas ==
    {PyStr(Str("{\"type\": \"integer\"}")), AnnotatedText, PyStr(<<Char.bom>> \o Str("{}")), PyStr(Str("5")),
     DocstringExample}

\* Dotted paths, as the attribute names they are written from.
Paths == {<<Name.model_field>>, <<Name.a, Name.b>>, <<Name.a, Name.b, Name.real>>}

\* ".".join(path)
JoinDotted(path) ==
    Join([k \in 1..Len(path) |-> (IF k > 1 THEN <<Char.dot>> ELSE <<>>) \o path[k]],
         1, Len(path))

PathSchemas == {PyStr(JoinDotted(path)) : path \in Paths}

FunctionSchemas ==
    {PyFunction(Name.module, Name.constant_schema),
     PyFunction(Name.module, Name.instance_schema),
     PyFunction(Name.module, Name.raising)}

SchemaArguments ==
    {PyNone} \cup LiteralSchemas \cup JsonTextSchemas \cup PathSchemas \cup FunctionSchemas

FormatCheckers == {PyNone, Draft7Validator}

\* encoder=: none, an encoder class, and two that are not callable, one of
\* them false
Encoders == {PyNone, DjangoJSONEncoder, PyInt(0), PyInt(1)}

\* A model instance: its own schema field, and a related object a.
RelatedObjects ==
    {PyObject(Name.related, << <<Name.b, PyInt(5)>> >>), PyObject(Name.related, <<>>)}

ModelInstances ==
    {PyObject(Name.instance, << <<Name.model_field, schema>>, <<Name.a, related>> >>) :
        schema \in {IntegerSchema, StringSchema}, related \in RelatedObjects}

Values == {PyInt(5), PyFloat(Str("5.0")), PyStr(<<Char.x>>), PyNone}

\* The calls the frame of __init__ may still nest before the interpreter's
\* recursion limit (sys.getrecursionlimit() less the depth of the frame) where
\* a field is declared or rebuilt: close to the limit, and far from it.
NearLimit == 6

FarFromLimit == 900

CallsLeft == {NearLimit, FarFromLimit}

\* The threads that validate concurrently; thread t validates instance t.
Threads == {1, 2}

(***************************************************************************)
(* State machine                                                           *)
(***************************************************************************)
NoCall == [op |-> "", n |-> 0, value |-> PyNone,
           res |-> Result(NoExc, PyNone, PyNone, PyNone, PyNone, <<>>)]

Idle == [pc |-> "idle", value |-> PyNone, instance |-> PyNone,
         schema |-> PyNone, exc |-> NoExc]

Declared == ~Raised(ctor.exc)

Init ==
    /\ \E schema \in SchemaArguments, format_checker \in FormatCheckers,
          encoder \in Encoders, remaining \in CallsLeft :
          \E made \in {JSONSchemaField__init__(schema, format_checker, encoder, remaining)} :
          /\ ctor = [schema |-> schema, format_checker |-> format_checker,
                     encoder |-> encoder, remaining |-> remaining,
                     exc |-> made.exc, self |-> made.self]
          /\ field = made.self
    /\ instances \in [1..NumInstances -> ModelInstances]
    /\ last = NoCall
    /\ threads = [t \in Threads |-> Idle]

\* The effect of a completed call on the field n-th instance.
Completed(op, n, value, res) ==
    /\ last' = [op |-> op, n |-> n, value |-> value, res |-> res]
    /\ field' = res.self
    /\ instances' = IF n = 0 THEN instances
                    ELSE [instances EXCEPT ![n] = res.model_instance]
    /\ UNCHANGED <<ctor, threads>>

GetSchema(n) ==
    /\ Declared
    /\ Completed("get_schema", n, PyNone, get_schema(field, instances[n]))

ValidateAgainstSchema(n, value) ==
    /\ Declared
    /\ Completed("validate_against_schema", n, value,
                 validate_against_schema(field, value, instances[n]))

Validate(n, value) ==
    /\ Declared
    /\ Completed("validate", n, value, validate(field, value, instances[n]))

Deconstruct ==
    /\ Declared
    /\ Completed("deconstruct", 0, PyNone, deconstruct(field))

\* A migration rebuilds the field from its deconstruction, in a frame that may
\* nest remaining calls more; the field stays as it is when the constructor
\* raises.
Reconstruct(remaining) ==
    /\ Declared
    /\ \E again \in {Reconstructed(deconstruct(field).ret, remaining)} :
          /\ field' = IF Raised(again.exc) THEN field ELSE again.self
          /\ last' = [NoCall EXCEPT !.op = "reconstruct", !.res.exc = again.exc]
    /\ UNCHANGED <<ctor, instances, threads>>

\* The application assigns an attribute of an instance: another schema to
\* model_field, another related object to a.
SetAttr(n, name, val) ==
    /\ instances[n] # SetKey(instances[n], name, val)
    /\ instances' = [instances EXCEPT ![n] = SetKey(instances[n], name, val)]
    /\ UNCHANGED <<ctor, field, threads>>

Assign ==
    \E n \in 1..NumInstances :
        \/ \E schema \in {IntegerSchema, StringSchema} : SetAttr(n, Name.model_field, schema)
        \/ \E related \in RelatedObjects : SetAttr(n, Name.a, related)

AssignBetweenCalls ==
    /\ Assign
    /\ last' = [NoCall EXCEPT !.op = "setattr"]

Next ==
    \/ \E n \in 1..NumInstances : GetSchema(n)
    \/ \E n \in 1..NumInstances, value \in Values : ValidateAgainstSchema(n, value)
    \/ \E n \in 1..NumInstances, value \in Values : Validate(n, value)
    \/ Deconstruct
    \/ \E remaining \in CallsLeft : Reconstruct(remaining)
    \/ AssignBetweenCalls

Spec == Init /\ [][Next]_vars

(***************************************************************************)
(* Concurrent validations: each thread runs validate_against_schema on its *)
(* own instance, line 109 and lines 110-115 as two steps, while the        *)
(* application goes on assigning attributes.                               *)
(***************************************************************************)
\* Line 109: schema = self.get_schema(model_instance)
Resolve(t, value) ==
    /\ Declared
    /\ threads[t].pc = "idle"
    /\ \E got \in {get_schema(field, instances[t])} :
       /\ threads' = [threads EXCEPT ![t] =
                        [pc |-> IF Raised(got.exc) THEN "done" ELSE "resolved",
                         value |-> value, instance |-> instances[t],
                         schema |-> got.ret, exc |-> got.exc]]
       /\ field' = got.self
       /\ instances' = [instances EXCEPT ![t] = got.model_instance]
    /\ UNCHANGED <<ctor, last>>

\* Lines 110-115: the engine call and its translation
Engine(t) ==
    /\ threads[t].pc = "resolved"
    /\ threads' = [threads EXCEPT ![t].pc = "done",
                                  ![t].exc = validate_against_resolved(
                                                field, threads[t].value, threads[t].schema)]
    /\ UNCHANGED <<ctor, field, instances, last>>

\* The call returns or raises to its caller.
Return(t) ==
    /\ threads[t].pc = "done"
    /\ threads' = [threads EXCEPT ![t] = Idle]
    /\ UNCHANGED <<ctor, field, instances, last>>

AssignConcurrently ==
    /\ Assign
    /\ last' = last

NextConcurrent ==
    \/ \E t \in Threads, value \in {PyInt(5), PyStr(<<Char.x>>)} : Resolve(t, value)
    \/ \E t \in Threads : Engine(t)
    \/ \E t \in Threads : Return(t)
    \/ AssignConcurrently

SpecConcurrent == Init /\ [][NextConcurrent]_vars

(***************************************************************************)
(* Properties                                                              *)
(***************************************************************************)
Stored == GetKey(field, FieldAttr.schema)

\* The field as its declaration built it.
AsDeclared == ctor.self

\* The instance the last call was made on.
LastInstance == instances[last.n]

EngineCalls(calls) == {k \in 1..Len(calls) : calls[k].fn = JsonschemaValidateFunction}

\* What the engine raised in the last call, NoExc when it was not called or
\* raised nothing.
LastEngineRaised ==
    IF EngineCalls(last.res.calls) = {} THEN NoExc
    ELSE Bind(last.res.calls[Len(last.res.calls)], LAMBDA call :
            JsonschemaValidate(call.args[1], call.args[2], call.args[3]))

EngineExceptions == {EngineValidationError, SchemaError, RefResolutionError}

\* C1: in validate_against_schema every exception of the JSON Schema engine is
\* re-raised as django's ValidationError: the engine's ValidationError with code
\* invalid_data, its SchemaError with code invalid_schema_definition, both
\* with the engine's message, and no engine exception reaches the caller as it is.
C1_EngineExceptionsTranslated ==
    (last.op = "validate_against_schema" /\ LastEngineRaised.type \in EngineExceptions)
    => /\ last.res.exc.type = HostValidationError
       /\ last.res.exc.message = LastEngineRaised.message
       /\ LastEngineRaised.type = EngineValidationError => last.res.exc.code = "invalid_data"
       /\ LastEngineRaised.type = SchemaError
            => last.res.exc.code = "invalid_schema_definition"

\* C2: when resolving the schema fails (a path segment that is no readable
\* attribute, a computed schema that raises), get_schema and
\* validate_against_schema raise that very error, not a ValidationError and not
\* a default value, and the engine is not called.
C2_ResolutionErrorsSurface ==
    (/\ Declared
     /\ last.op \in {"get_schema", "validate_against_schema"}
     /\ Callable(Stored)
     /\ Raised(CallSchema(Stored, LastInstance).exc))
    => /\ last.res.exc = CallSchema(Stored, LastInstance).exc
       /\ last.res.exc.type # HostValidationError
       /\ EngineCalls(last.res.calls) = {}

C2_Witness ==
    /\ last.op = "validate_against_schema"
    /\ ctor.schema = PyStr(JoinDotted(<<Name.a, Name.b>>))
    /\ Raised(GetAttr(GetKey(LastInstance, Name.a), Name.b).exc)
    /\ last.res.exc.type = "AttributeError"

\* C3: a string given as schema is stored either as the mapping its JSON text
\* parses to or as the dotted path made of the whole string, never as anything
\* else, and the string of the class docstring's usage example is stored as
\* its mapping.
C3_StringStoredAsMappingOrPath ==
    ctor.schema.t = "str"
    => /\ Declared
       /\ Stored.t \in {"dict", "FieldReference"}
       /\ Stored.t = "FieldReference" => Stored = FieldReference__init__(ctor.schema)
       /\ ctor.schema = DocstringExample => Stored.t = "dict"

\* The object reached from obj by reading the first n attributes of path in
\* the written order, and whether each of them can be read.
RECURSIVE Reached(_, _, _)
Reached(obj, path, n) ==
    IF n = 0 THEN obj ELSE GetAttr(Reached(obj, path, n - 1), path[n]).ret

RECURSIVE Readable(_, _, _)
Readable(obj, path, n) ==
    \/ n = 0
    \/ /\ Readable(obj, path, n - 1)
       /\ ~Raised(GetAttr(Reached(obj, path, n - 1), path[n]).exc)

\* C4: for a dotted path s1.s2...sn and an instance on which every segment can
\* be read, get_schema returns the value reached by reading s1, then s2, ... in
\* the written order, unchanged.
C4_PathWalkedInOrder ==
    \A path \in Paths :
        (/\ Declared
         /\ last.op = "get_schema"
         /\ ctor.schema = PyStr(JoinDotted(path))
         /\ Readable(LastInstance, path, Len(path)))
        => /\ last.res.exc = NoExc
           /\ last.res.ret = Reached(LastInstance, path, Len(path))

C4_Witness ==
    /\ last.op = "get_schema"
    /\ ctor.schema = PyStr(JoinDotted(<<Name.a, Name.b, Name.real>>))
    /\ Readable(LastInstance, <<Name.a, Name.b, Name.real>>, 3)
    /\ ~Raised(last.res.exc)
    /\ last.res.ret = PyInt(5)

\* C5: get_schema returns a mapping given as schema as it is, calling nothing,
\* and for a function given as schema calls it exactly once, with the instance
\* as only argument, and returns what it returned.
C5_GetSchemaDispatch ==
    (Declared /\ last.op = "get_schema")
    => /\ ctor.schema.t = "dict"
            => /\ last.res.exc = NoExc
               /\ last.res.ret = ctor.schema
               /\ last.res.calls = <<>>
       /\ ctor.schema.t = "function"
            => /\ last.res.calls = <<CallOf(ctor.schema, <<LastInstance>>)>>
               /\ last.res.exc = ApplyFunction(ctor.schema, LastInstance).exc
               /\ ~Raised(last.res.exc)
                    => last.res.ret = ApplyFunction(ctor.schema, LastInstance).ret

C5_Witness ==
    /\ last.op = "get_schema"
    /\ ctor.schema = PyFunction(Name.module, Name.instance_schema)
    /\ last.res.ret = StringSchema
    /\ Len(last.res.calls) = 1

\* C6: a field declared with schema None resolves to the empty mapping for
\* every instance, and validate_against_schema of any value returns.
C6_NoneIsEmptySchema ==
    (Declared /\ ctor.schema = PyNone)
    => /\ last.op \in {"get_schema", "validate_against_schema"}
            => ~Raised(last.res.exc)
       /\ last.op = "get_schema" => last.res.ret = PyDict(<<>>)
       /\ \A n \in 1..NumInstances, value \in Values :
            /\ get_schema(field, instances[n]).ret = PyDict(<<>>)
            /\ ~Raised(validate_against_schema(field, value, instances[n]).exc)

C6_Witness ==
    /\ ctor.schema = PyNone
    /\ last.op = "validate_against_schema"
    /\ last.value = PyStr(<<Char.x>>)
    /\ ~Raised(last.res.exc)

MethodCalls == {"get_schema", "validate_against_schema", "validate", "deconstruct"}

\* C8: a get_schema, validate_against_schema, validate or deconstruct call,
\* returning or raising, changes neither the field (the schema it was given,
\* the schema it stores, its format checker) nor the instance nor the value.
C8_CallsChangeNothing ==
    [][ (last' # last /\ last'.op \in MethodCalls)
        => /\ field' = field
           /\ instances' = instances
           /\ last'.res.value = last'.value ]_vars

C8_Witness ==
    /\ last.op = "validate"
    /\ last.res.exc.code = "invalid_data"
    /\ field = AsDeclared

\* C9: what a validate_against_schema call raises depends only on the value,
\* the field as declared and the instance as it was when the call resolved its
\* schema: it is what the call gives alone on a field just declared, whatever
\* other validations and assignments went before or in between.
C9_ValidationStateless ==
    \A t \in Threads :
        threads[t].pc = "done"
        => threads[t].exc
             = validate_against_schema(AsDeclared, threads[t].value, threads[t].instance).exc

C9_Witness ==
    /\ threads[1].pc = "done"
    /\ threads[1].exc.code = "invalid_data"
    /\ threads[1].instance # instances[1]
    /\ threads[2].pc = "resolved"
    /\ threads[2].instance # threads[1].instance
    /\ threads[2].schema # threads[1].schema

\* C10: validate_against_schema raises invalid_data only when the resolved
\* schema is a valid JSON Schema document and the value does not conform to
\* it, and raises invalid_schema_definition whenever the resolved schema is not
\* a valid JSON Schema document, for every value.
C10_MalformedSchemaTakesPrecedence ==
    (last.op = "validate_against_schema" /\ EngineCalls(last.res.calls) # {})
    => Bind(last.res.calls[Len(last.res.calls)].args[2], LAMBDA schema :
       /\ last.res.exc.code = "invalid_data" => CheckSchema(schema) = <<>>
       /\ CheckSchema(schema) # <<>>
            => /\ last.res.exc.type = HostValidationError
               /\ last.res.exc.code = "invalid_schema_definition")

====
